---- MODULE Spec2Model ----
(***************************************************************************)
(* Model of the resume tailoring pipeline of Ai-Resume-tailor:             *)
(*   - normalizeResume, extractFirstJsonObject, safeJsonParse and the      *)
(*     POST handler of src/app/api/tailor/route.ts,                        *)
(*   - formatResumeATS of src/lib/resumeFormat.ts,                         *)
(*   - extractJobKeywords of src/app/page.tsx.                             *)
(* JavaScript strings are TLA+ strings (sequences of characters); a        *)
(* JavaScript value is a record tagged by its type in field t.             *)
(***************************************************************************)
EXTENDS Integers, Sequences, FiniteSets, TLC

(***************************************************************************)
(* Bounds of the model.                                                    *)
(***************************************************************************)
\* longest list (links, skills, bullets, entries) in a raw resume
MaxList == 2
\* number of whitespace-separated words in a job text
MaxWords == 3

\* the most words of a job text analyzeAts is applied to
MaxAtsWords == 2

\* the Tailor requests and the bullet edits of a visit of the page
MaxRuns == 1

MaxEdits == 1

\* the clicks on the history list (open, delete, clear) of a visit of the page
MaxClicks == 1

\* the Regenerate requests of a visit of the page
MaxRegens == 1

(***************************************************************************)
(* Strings.                                                                *)
(***************************************************************************)
At(s, i) == SubSeq(s, i, i)

SetMin(S) == CHOOSE x \in S : \A y \in S : x <= y

SetMax(S) == 0 - SetMin({0 - x : x \in S})

\* the characters JavaScript's \s and String.prototype.trim treat as blank
WhiteSpace == {" ", "\n", "\t", "\r"}

\* s.slice(from) with from a 0-based offset
SliceFrom(s, from) == IF from >= Len(s) THEN "" ELSE SubSeq(s, from + 1, Len(s))

\* s.slice(0, n)
SliceTo(s, n) == IF n <= 0 THEN "" ELSE SubSeq(s, 1, IF n < Len(s) THEN n ELSE Len(s))

\* a variant of trim that removes at most one blank at each end
TrimOnce(s) ==
  LET a == IF Len(s) > 0 /\ At(s, 1) \in WhiteSpace THEN SliceFrom(s, 1) ELSE s
  IN IF Len(a) > 0 /\ At(a, Len(a)) \in WhiteSpace THEN SliceTo(a, Len(a) - 1) ELSE a

\* String.prototype.trim
Trim(s) ==
  LET keep == {i \in 1..Len(s) : At(s, i) \notin WhiteSpace}
  IN IF keep = {} THEN "" ELSE SubSeq(s, SetMin(keep), SetMax(keep))

\* the first position from i on whose character is in set, 0 when there is none
IndexIn(s, set, i) ==
  LET at == {j \in i..Len(s) : At(s, j) \in set} IN IF at = {} THEN 0 ELSE SetMin(at)

\* the first position from i on whose character is not in set, Len(s) + 1 when there is none
Skip(s, set, i) ==
  LET at == {j \in i..Len(s) : At(s, j) \notin set} IN IF at = {} THEN Len(s) + 1 ELSE SetMin(at)

RECURSIVE JoinStr(_, _)
\* Array.prototype.join on a sequence of strings
JoinStr(parts, sep) ==
  IF Len(parts) = 0 THEN ""
  ELSE IF Len(parts) = 1 THEN parts[1]
  ELSE parts[1] \o sep \o JoinStr(Tail(parts), sep)

Digits == <<"0", "1", "2", "3", "4", "5", "6", "7", "8", "9">>

RECURSIVE NatStr(_)
NatStr(n) == IF n < 10 THEN Digits[n + 1] ELSE NatStr(n \div 10) \o Digits[(n % 10) + 1]

\* Number.prototype.toString of an integer
NumStr(n) == IF n < 0 THEN "-" \o NatStr(-n) ELSE NatStr(n)

(***************************************************************************)
(* JavaScript values: what JSON.parse yields, and undefined.               *)
(***************************************************************************)
Undef == [t |-> "undef"]

Null == [t |-> "null"]

Bool(b) == [t |-> "bool", b |-> b]

Num(n) == [t |-> "num", n |-> n]

Str(s) == [t |-> "str", s |-> s]

Arr(a) == [t |-> "arr", a |-> a]

Obj(o) == [t |-> "obj", o |-> o]

\* the object {}
NoProps == [k \in {} |-> Undef]

IsArray(v) == v.t = "arr"

\* v?.k : undefined unless v is an object with own property k
Get(v, k) == IF v.t = "obj" /\ k \in DOMAIN v.o THEN v.o[k] ELSE Undef

\* v ?? ""
OrEmpty(v) == IF v.t \in {"null", "undef"} THEN Str("") ELSE v

RECURSIVE StringThrows(_)
\* String(v) raises TypeError: OrdinaryToPrimitive finds no callable toString
\* (an own property toString of a parsed object is never callable) and the
\* inherited valueOf returns the object itself
StringThrows(v) ==
  CASE v.t = "obj" -> "toString" \in DOMAIN v.o
    [] v.t = "arr" -> \E i \in 1..Len(v.a) : StringThrows(v.a[i])
    [] OTHER -> FALSE

RECURSIVE String(_)
\* String(v) where it returns
String(v) ==
  CASE v.t = "str" -> v.s
    [] v.t = "num" -> NumStr(v.n)
    [] v.t = "bool" -> (IF v.b THEN "true" ELSE "false")
    [] v.t = "null" -> "null"
    [] v.t = "undef" -> "undefined"
    [] v.t = "arr" ->
         JoinStr([i \in 1..Len(v.a) |->
                    IF v.a[i].t \in {"null", "undef"} THEN "" ELSE String(v.a[i])], ",")
    [] OTHER -> "[object Object]"

\* Boolean(v) of a string value
Truthy(v) == v.t = "str" /\ v.s # ""

(***************************************************************************)
(* normalizeResume (src/app/api/tailor/route.ts).                          *)
(***************************************************************************)
\* String(v ?? "") with no trim
CoerceRaw(v) == String(OrEmpty(v))

\* String(v ?? "").trim()
Coerce(v) == Trim(String(OrEmpty(v)))

\* String(v ?? "").trim() with the "|| undefined" left out
OptionalKeepEmpty(v) == Str(Coerce(v))

\* String(v ?? "").trim() || undefined
Optional(v) == IF Coerce(v) = "" THEN Undef ELSE Str(Coerce(v))

\* typeof r?.summary === "string" ? r.summary.trim() : ""
Summary(v) == IF v.t = "str" THEN Str(Trim(v.s)) ELSE Str("")

\* String(r?.header?.name ?? "").trim() || "NAME"
Name(v) == IF Coerce(v) = "" THEN Str("NAME") ELSE Str(Coerce(v))

\* a.map(String)
MapString(a) == [i \in 1..Len(a) |-> Str(String(a[i]))]

\* Array.isArray(v) ? v.map(String) : []
StringList(v) == IF IsArray(v) THEN Arr(MapString(v.a)) ELSE Arr(<<>>)

\* Array.isArray(v) ? v.map(String).filter(Boolean) : []
NonEmptyStringList(v) ==
  IF IsArray(v) THEN Arr(SelectSeq(MapString(v.a), Truthy)) ELSE Arr(<<>>)

\* .filter((x) => x.label || x.url)
KeepLink(x) == x.o.label.s # "" \/ x.o.url.s # ""

Link(x) == Obj([label |-> Str(Coerce(Get(x, "label"))), url |-> Str(Coerce(Get(x, "url")))])

Links(v) ==
  IF IsArray(v) THEN Arr(SelectSeq([i \in 1..Len(v.a) |-> Link(v.a[i])], KeepLink))
  ELSE Arr(<<>>)

Header(h) ==
  Obj([name |-> Name(Get(h, "name")),
       location |-> Optional(Get(h, "location")),
       email |-> Optional(Get(h, "email")),
       phone |-> Optional(Get(h, "phone")),
       links |-> Links(Get(h, "links"))])

Skills(s) ==
  Obj([languages |-> StringList(Get(s, "languages")),
       frameworks |-> StringList(Get(s, "frameworks")),
       tools |-> StringList(Get(s, "tools")),
       other |-> StringList(Get(s, "other"))])

ExperienceItem(e) ==
  Obj([company |-> Str(Coerce(Get(e, "company"))),
       title |-> Str(Coerce(Get(e, "title"))),
       location |-> Optional(Get(e, "location")),
       start |-> Optional(Get(e, "start")),
       end |-> Optional(Get(e, "end")),
       bullets |-> NonEmptyStringList(Get(e, "bullets"))])

ProjectItem(p) ==
  Obj([name |-> Str(Coerce(Get(p, "name"))),
       tech |-> NonEmptyStringList(Get(p, "tech")),
       bullets |-> NonEmptyStringList(Get(p, "bullets"))])

EducationItem(e) ==
  Obj([school |-> Str(Coerce(Get(e, "school"))),
       degree |-> Optional(Get(e, "degree")),
       location |-> Optional(Get(e, "location")),
       year |-> Optional(Get(e, "year")),
       details |-> NonEmptyStringList(Get(e, "details"))])

\* .filter((e) => e.company || e.title)
KeepExperienceEither(e) == e.o.company.s # "" \/ e.o.title.s # ""

\* .filter((e) => e.company && e.title)
KeepExperience(e) == e.o.company.s # "" /\ e.o.title.s # ""

\* .filter((p) => p.name)
KeepProject(p) == p.o.name.s # ""

\* .filter((e) => e.school)
KeepEducation(e) == e.o.school.s # ""

\* Array.isArray(v) ? v.map(...) : [], then .filter((e) => e.company && e.title)
Experience(v) ==
  IF IsArray(v)
  THEN Arr(SelectSeq([i \in 1..Len(v.a) |-> ExperienceItem(v.a[i])], KeepExperience))
  ELSE Arr(<<>>)

Projects(v) ==
  IF IsArray(v)
  THEN Arr(SelectSeq([i \in 1..Len(v.a) |-> ProjectItem(v.a[i])], KeepProject))
  ELSE Arr(<<>>)

Education(v) ==
  IF IsArray(v)
  THEN Arr(SelectSeq([i \in 1..Len(v.a) |-> EducationItem(v.a[i])], KeepEducation))
  ELSE Arr(<<>>)

\* the value normalizeResume(r) returns, when it returns
normalizeResume(r) ==
  Obj([header |-> Header(Get(r, "header")),
       summary |-> Summary(Get(r, "summary")),
       skills |-> Skills(Get(r, "skills")),
       experience |-> Experience(Get(r, "experience")),
       projects |-> Projects(Get(r, "projects")),
       education |-> Education(Get(r, "education"))])

\* String(v ?? "") raises
ScalarThrows(v) == StringThrows(OrEmpty(v))

\* v.map(String) raises
ListThrows(v) == IsArray(v) /\ \E i \in 1..Len(v.a) : StringThrows(v.a[i])

\* some item of the array v has a scalar field or a list field whose coercion raises
ItemsThrow(v, scalars, lists) ==
  IsArray(v) /\ \E i \in 1..Len(v.a) :
     \/ \E k \in scalars : ScalarThrows(Get(v.a[i], k))
     \/ \E k \in lists : ListThrows(Get(v.a[i], k))

\* normalizeResume(r) raises TypeError instead of returning
normalizeResumeThrows(r) ==
  \/ \E k \in {"name", "location", "email", "phone"} : ScalarThrows(Get(Get(r, "header"), k))
  \/ ItemsThrow(Get(Get(r, "header"), "links"), {"label", "url"}, {})
  \/ \E k \in {"languages", "frameworks", "tools", "other"} : ListThrows(Get(Get(r, "skills"), k))
  \/ ItemsThrow(Get(r, "experience"), {"company", "title", "location", "start", "end"}, {"bullets"})
  \/ ItemsThrow(Get(r, "projects"), {"name"}, {"tech", "bullets"})
  \/ ItemsThrow(Get(r, "education"), {"school", "degree", "location", "year"}, {"details"})

(***************************************************************************)
(* extractJobKeywords (src/app/page.tsx).                                  *)
(* A TLA+ string holds ASCII only: U+2019, the curly apostrophe, is        *)
(* written "^" and U+0060, the backtick, "~"; neither stand-in occurs      *)
(* otherwise in the texts of the model.                                    *)
(***************************************************************************)
CurlyApostrophe == "^"

Backtick == "~"

UpperCase == "ABCDEFGHIJKLMNOPQRSTUVWXYZ"

LowerCase == "abcdefghijklmnopqrstuvwxyz"

\* the lower-case letter of each upper-case letter
LowerOf ==
  [c \in {At(UpperCase, i) : i \in 1..26} |->
     At(LowerCase, CHOOSE i \in 1..26 : At(UpperCase, i) = c)]

LowerChar(c) == IF c \in DOMAIN LowerOf THEN LowerOf[c] ELSE c

RECURSIVE MapChars(_, _, _)
\* s with every character c from position i on replaced by f[c]
MapChars(s, i, f) == IF i > Len(s) THEN "" ELSE f[At(s, i)] \o MapChars(s, i + 1, f)

CharsOf(s) == {At(s, i) : i \in 1..Len(s)}

\* String.prototype.toLowerCase
toLowerCase(s) == MapChars(s, 1, [c \in CharsOf(s) |-> LowerChar(c)])

\* .replace(/['’]/g, "'")
StraightenApostrophes(s) ==
  MapChars(s, 1, [c \in CharsOf(s) |-> IF c = CurlyApostrophe THEN "'" ELSE c])

DigitChars == CharsOf("0123456789")

\* [a-z0-9]
TokenStart == CharsOf(LowerCase) \cup DigitChars

\* [a-z0-9\+\#\.\-\/]
TokenBody == TokenStart \cup {"+", "#", ".", "-", "/"}

\* the last position of the run of TokenBody characters that starts at i
RunEnd(s, i) ==
  SetMin({j \in i..Len(s) : j = Len(s) \/ At(s, j + 1) \notin TokenBody})

RECURSIVE Match(_, _)
\* s.match(/[a-z0-9][a-z0-9\+\#\.\-\/]{1,}/g) ?? [], scanning from position i
Match(s, i) ==
  IF i >= Len(s) THEN <<>>
  ELSE IF At(s, i) \in TokenStart /\ At(s, i + 1) \in TokenBody
       THEN <<SubSeq(s, i, RunEnd(s, i + 1))>> \o Match(s, RunEnd(s, i + 1) + 1)
       ELSE Match(s, i + 1)

\* tok.replace(/^[\.\-\/]+|[\.\-\/]+$/g, "")
StripEdges(tok) ==
  LET keep == {i \in 1..Len(tok) : At(tok, i) \notin {".", "-", "/"}}
  IN IF keep = {} THEN "" ELSE SubSeq(tok, SetMin(keep), SetMax(keep))

\* /\d/.test(t)
HasDigit(t) == \E i \in 1..Len(t) : At(t, i) \in DigitChars

ShortAllowed == {"c", "r", "go", "js", "ts"}

STOPWORDS ==
  {"a", "an", "and", "are", "as", "at", "be", "but", "by", "for", "from", "has", "have", "had",
   "he", "she", "they", "them", "their", "the", "to", "of", "on", "or", "in", "is", "it", "its",
   "this", "that", "these", "those", "with", "will", "would", "can", "could", "should", "may",
   "we", "our", "you", "your", "i", "me", "my", "us", "than", "then", "into", "over", "under",
   "within", "across", "per", "using", "use", "used", "work", "works", "working", "role",
   "responsibilities", "requirements", "preferred", "years", "year", "experience",
   "strong", "excellent", "ability", "skills", "team", "teams", "including", "plus"}

\* the filters with the digit test left out
RejectedKeepDigits(t) ==
  \/ Len(t) < 3 /\ t \notin ShortAllowed
  \/ t \in STOPWORDS

\* the token is skipped (the three "continue" of the loop)
Rejected(t) ==
  \/ HasDigit(t)
  \/ Len(t) < 3 /\ t \notin ShortAllowed
  \/ t \in STOPWORDS

\* the token kept as it is
NormalizedNot(t) == t

\* the canonical form of a token
Normalized(t) ==
  IF t = "typescript" THEN "ts"
  ELSE IF t = "javascript" THEN "js"
  ELSE IF t = "node" THEN "node.js"
  ELSE t

\* the tokens of the loop body: stripped, and those not skipped
Accepted(tokens) ==
  LET stripped == [i \in 1..Len(tokens) |-> StripEdges(tokens[i])]
      Keep(t) == ~Rejected(t)
  IN SelectSeq(stripped, Keep)

RECURSIVE Tally(_, _)
\* freq.set(normalized, (freq.get(normalized) ?? 0) + 1) for each token in turn;
\* freq is the Map as the sequence of its entries in insertion order
Tally(tokens, freq) ==
  IF tokens = <<>> THEN freq
  ELSE LET k == Normalized(Head(tokens))
           at == {i \in 1..Len(freq) : freq[i].k = k}
       IN IF at = {}
          THEN Tally(Tail(tokens), Append(freq, [k |-> k, n |-> 1]))
          ELSE Tally(Tail(tokens),
                     [freq EXCEPT ![CHOOSE i \in at : TRUE].n = @ + 1])

\* the comparator (a, b) => a[1] - b[1]: e goes before the entries counted more
InsertAscending(sorted, e) ==
  LET Before(x) == x.n <= e.n
      After(x) == x.n > e.n
  IN SelectSeq(sorted, Before) \o <<e>> \o SelectSeq(sorted, After)

\* e placed into a sequence sorted by (a, b) => b[1] - a[1], behind the entries
\* counted as often (Array.prototype.sort is stable)
Insert(sorted, e) ==
  LET Before(x) == x.n >= e.n
      After(x) == x.n < e.n
  IN SelectSeq(sorted, Before) \o <<e>> \o SelectSeq(sorted, After)

RECURSIVE Sort(_, _)
\* entries.sort((a, b) => b[1] - a[1]), the entries taken in order into sorted
Sort(entries, sorted) ==
  IF entries = <<>> THEN sorted ELSE Sort(Tail(entries), Insert(sorted, Head(entries)))

DefaultMax == 35

\* .slice(0, max) of a sequence
Take(seq, n) == SubSeq(seq, 1, IF n < Len(seq) THEN n ELSE Len(seq))

\* the tokens of the job text, as the loop sees them
JobTokens(text) == Match(toLowerCase(StraightenApostrophes(text)), 1)

extractJobKeywords(text, limit) ==
  LET sorted == Sort(Tally(Accepted(JobTokens(text)), <<>>), <<>>)
  IN Take([i \in 1..Len(sorted) |-> sorted[i].k], limit)

(***************************************************************************)
(* analyzeAts (src/app/page.tsx).                                          *)
(***************************************************************************)
\* s.includes(k)
Includes(s, k) == \E i \in 1..(Len(s) - Len(k) + 1) : SubSeq(s, i, i + Len(k) - 1) = k

\* n / d rounded down
RoundDown(n, d) == n \div d

\* Math.round(n / d) for n >= 0 and d > 0: the nearest integer, a half going up.
\* The code rounds the double (present.length / total) * 100; for total <= 35
\* the double is on the same side of every half as the quotient.
Round(n, d) == (2 * n + d) \div (2 * d)

analyzeAts(job, resumeText) ==
  LET keywords == extractJobKeywords(job, DefaultMax)
      lowered == toLowerCase(resumeText)
      Has(k) == Includes(lowered, k)
      Lacks(k) == ~Includes(lowered, k)
      present == SelectSeq(keywords, Has)
      total == IF Len(keywords) = 0 THEN 1 ELSE Len(keywords)
  IN [score |-> Round(100 * Len(present), total),
      keywords |-> keywords,
      present |-> present,
      missing |-> SelectSeq(keywords, Lacks)]

(***************************************************************************)
(* formatResumeATS (src/lib/resumeFormat.ts), on a TailoredResume: fields  *)
(* may be missing, those present have the declared types.  U+2014, the em  *)
(* dash, is written "=" and U+2013, the en dash, "_".                      *)
(***************************************************************************)
EmDash == "="

EnDash == "_"

\* s ?? "" of a string field
Text(v) == IF v.t = "str" THEN v.s ELSE ""

\* v ?? [] of a list field
Elements(v) == IF v.t = "arr" THEN v.a ELSE <<>>

NonEmpty(s) == s # ""

RECURSIVE Collapse(_, _)
\* s.replace(/\s+/g, " ") from position i on
Collapse(s, i) ==
  LET j == IndexIn(s, WhiteSpace, i)
  IN IF j = 0 THEN SliceFrom(s, i - 1)
     ELSE SubSeq(s, i, j - 1) \o " " \o Collapse(s, Skip(s, WhiteSpace, j))

\* clean(s) of a string field
clean(v) == Trim(Collapse(Text(v), 1))

\* parts.map(clean).filter(Boolean)
CleanNonEmpty(parts) == SelectSeq([i \in 1..Len(parts) |-> clean(parts[i])], NonEmpty)

joinNonEmpty(parts, sep) == JoinStr(CleanNonEmpty(parts), sep)

\* l?.url || l?.label
LinkText(l) == IF Text(Get(l, "url")) # "" THEN Get(l, "url") ELSE Get(l, "label")

\* links || undefined
StrOrUndef(s) == IF s = "" THEN Undef ELSE Str(s)

\* no contact line
ContactLineNone(h) == ""

\* the contact line, topLine2
ContactLine(h) ==
  joinNonEmpty(
    <<Get(h, "location"), Get(h, "email"), Get(h, "phone"),
      StrOrUndef(joinNonEmpty([i \in 1..Len(Elements(Get(h, "links"))) |->
                                 LinkText(Elements(Get(h, "links"))[i])], " | "))>>,
    " | ")

\* one line of the skills section, even when the category is empty
SkillsLineAlways(label, v) ==
  <<label \o ": " \o JoinStr([i \in 1..Len(Elements(v)) |-> Text(Elements(v)[i])], ", ")>>

\* one line of the skills section, none when the category is empty
SkillsLine(label, v) ==
  IF Len(Elements(v)) > 0
  THEN <<label \o ": " \o JoinStr([i \in 1..Len(Elements(v)) |-> Text(Elements(v)[i])], ", ")>>
  ELSE <<>>

\* the bullet lines of an experience or project entry
BulletLines(v) ==
  IF CleanNonEmpty(Elements(v)) = <<>> THEN <<"- " \o EmDash>>
  ELSE [i \in 1..Len(CleanNonEmpty(Elements(v))) |-> "- " \o CleanNonEmpty(Elements(v))[i]]

\* the header line with every segment, missing or not
ExperienceHeaderAll(e) ==
  clean(Get(e, "company")) \o " " \o EmDash \o " " \o clean(Get(e, "title"))
  \o " | " \o clean(Get(e, "location"))
  \o " | " \o joinNonEmpty(<<Get(e, "start"), Get(e, "end")>>, EnDash)

ExperienceHeader(e) ==
  clean(Get(e, "company")) \o " " \o EmDash \o " " \o clean(Get(e, "title"))
  \o (IF Text(Get(e, "location")) # "" THEN " | " \o clean(Get(e, "location")) ELSE "")
  \o (IF Text(Get(e, "start")) # "" \/ Text(Get(e, "end")) # ""
      THEN " | " \o joinNonEmpty(<<Get(e, "start"), Get(e, "end")>>, EnDash)
      ELSE "")

ProjectHeader(p) ==
  clean(Get(p, "name"))
  \o (IF CleanNonEmpty(Elements(Get(p, "tech"))) # <<>>
      THEN " | Tech: " \o JoinStr(CleanNonEmpty(Elements(Get(p, "tech"))), ", ")
      ELSE "")

EducationHeader(e) ==
  joinNonEmpty(
    <<Str(clean(Get(e, "school"))
          \o (IF Text(Get(e, "degree")) # "" THEN " " \o EmDash \o " " \o clean(Get(e, "degree"))
              ELSE "")),
      Get(e, "location"), Get(e, "year")>>,
    " | ")

RECURSIVE ExperienceLines(_)
ExperienceLines(exp) ==
  IF exp = <<>> THEN <<>>
  ELSE <<ExperienceHeader(Head(exp))>> \o BulletLines(Get(Head(exp), "bullets")) \o <<"">>
       \o ExperienceLines(Tail(exp))

RECURSIVE ProjectLines(_)
ProjectLines(proj) ==
  IF proj = <<>> THEN <<>>
  ELSE <<ProjectHeader(Head(proj))>> \o BulletLines(Get(Head(proj), "bullets")) \o <<"">>
       \o ProjectLines(Tail(proj))

RECURSIVE EducationLines(_)
EducationLines(edu) ==
  IF edu = <<>> THEN <<>>
  ELSE <<IF EducationHeader(Head(edu)) # "" THEN EducationHeader(Head(edu)) ELSE EmDash>>
       \o [i \in 1..Len(CleanNonEmpty(Elements(Get(Head(edu), "details")))) |->
             "- " \o CleanNonEmpty(Elements(Get(Head(edu), "details")))[i]]
       \o EducationLines(Tail(edu))

\* the array out of formatResumeATS
OutLines(resume) ==
  LET h == Get(resume, "header")
      s == Get(resume, "skills")
      skillsLines == SkillsLine("Languages", Get(s, "languages"))
                     \o SkillsLine("Frameworks", Get(s, "frameworks"))
                     \o SkillsLine("Tools", Get(s, "tools"))
                     \o SkillsLine("Other", Get(s, "other"))
      exp == Elements(Get(resume, "experience"))
      proj == Elements(Get(resume, "projects"))
      edu == Elements(Get(resume, "education"))
  IN <<IF clean(Get(h, "name")) # "" THEN clean(Get(h, "name")) ELSE "NAME">>
     \o (IF ContactLine(h) # "" THEN <<ContactLine(h)>> ELSE <<>>)
     \o <<"", "-- SUMMARY --">>
     \o <<IF clean(Get(resume, "summary")) # "" THEN Trim(Text(Get(resume, "summary"))) ELSE EmDash>>
     \o <<"", "-- SKILLS --">>
     \o (IF skillsLines = <<>> THEN <<EmDash>> ELSE skillsLines)
     \o <<"", "-- EXPERIENCE --">>
     \o (IF exp = <<>> THEN <<EmDash, "">> ELSE ExperienceLines(exp))
     \o <<"-- PROJECTS --">>
     \o (IF proj = <<>> THEN <<EmDash, "">> ELSE ProjectLines(proj))
     \o <<"-- EDUCATION --">>
     \o (IF edu = <<>> THEN <<EmDash>> ELSE EducationLines(edu))

\* the lines joined and closed by a blank line
formatResumeATSBlankLine(resume) == Trim(JoinStr(OutLines(resume), "\n")) \o "\n\n"

\* out.join("\n").trim() + "\n"
formatResumeATS(resume) == Trim(JoinStr(OutLines(resume), "\n")) \o "\n"

(***************************************************************************)
(* JSON.parse, safeJsonParse and extractFirstJsonObject                    *)
(* (src/app/api/tailor/route.ts).  JSON.parse is modelled for texts whose  *)
(* numbers are integers and whose strings use no escape but \" \\ \/ \n    *)
(* \t \r \u0000.  U+0000 is written "%".                                   *)
(***************************************************************************)
Nul == "%"

JsonSpace == {" ", "\t", "\n", "\r"}

ParseFail == [ok |-> FALSE, v |-> Undef, i |-> 0]

ParseOk(v, i) == [ok |-> TRUE, v |-> v, i |-> i]

\* the character an escape sequence \c stands for, "" when c escapes nothing
Unescape(c) ==
  CASE c = "\"" -> "\""
    [] c = "\\" -> "\\"
    [] c = "/" -> "/"
    [] c = "n" -> "\n"
    [] c = "t" -> "\t"
    [] c = "r" -> "\r"
    [] OTHER -> ""

RECURSIVE StringBody(_, _, _)
\* the rest of a string literal from position i, acc being what was read of it
StringBody(s, i, acc) ==
  LET j == IndexIn(s, {"\"", "\\", "\n", "\t", "\r", Nul}, i)
  IN IF j = 0 THEN ParseFail
     ELSE IF At(s, j) = "\"" THEN ParseOk(Str(acc \o SubSeq(s, i, j - 1)), j + 1)
     ELSE IF At(s, j) = "\\" /\ j < Len(s) /\ Unescape(At(s, j + 1)) # ""
          THEN StringBody(s, j + 2, acc \o SubSeq(s, i, j - 1) \o Unescape(At(s, j + 1)))
     ELSE IF At(s, j) = "\\" /\ j + 5 <= Len(s) /\ SubSeq(s, j + 1, j + 5) = "u0000"
          THEN StringBody(s, j + 6, acc \o SubSeq(s, i, j - 1) \o Nul)
          ELSE ParseFail

RECURSIVE DigitsValue(_, _, _)
\* the number written by the digits of s from position i to position j
DigitsValue(s, i, j) ==
  IF j < i THEN 0
  ELSE 10 * DigitsValue(s, i, j - 1) + ((CHOOSE d \in 1..10 : Digits[d] = At(s, j)) - 1)

\* an integer literal at position i: -? (0 | [1-9][0-9]*)
ParseNumber(s, i) ==
  LET from == IF At(s, i) = "-" THEN i + 1 ELSE i
      to == Skip(s, DigitChars, from) - 1
  IN IF to < from \/ (At(s, from) = "0" /\ to > from) THEN ParseFail
     ELSE ParseOk(Num(IF from > i THEN 0 - DigitsValue(s, from, to) ELSE DigitsValue(s, from, to)),
                  to + 1)

StartsWith(s, i, word) == i + Len(word) - 1 <= Len(s) /\ SubSeq(s, i, i + Len(word) - 1) = word

RECURSIVE ParseValue(_, _), ParseMembers(_, _, _), ParseElements(_, _, _)
\* the JSON value that starts at position i, blanks skipped
ParseValue(s, i) ==
  LET j == Skip(s, JsonSpace, i)
  IN IF j > Len(s) THEN ParseFail
     ELSE CASE At(s, j) = "{" ->
                 (IF StartsWith(s, Skip(s, JsonSpace, j + 1), "}")
                  THEN ParseOk(Obj(NoProps), Skip(s, JsonSpace, j + 1) + 1)
                  ELSE ParseMembers(s, Skip(s, JsonSpace, j + 1), NoProps))
            [] At(s, j) = "[" ->
                 (IF StartsWith(s, Skip(s, JsonSpace, j + 1), "]")
                  THEN ParseOk(Arr(<<>>), Skip(s, JsonSpace, j + 1) + 1)
                  ELSE ParseElements(s, j + 1, <<>>))
            [] At(s, j) = "\"" -> StringBody(s, j + 1, "")
            [] At(s, j) \in DigitChars \cup {"-"} -> ParseNumber(s, j)
            [] StartsWith(s, j, "true") -> ParseOk(Bool(TRUE), j + 4)
            [] StartsWith(s, j, "false") -> ParseOk(Bool(FALSE), j + 5)
            [] StartsWith(s, j, "null") -> ParseOk(Null, j + 4)
            [] OTHER -> ParseFail

\* the members of an object from position i (at a key), props being those read;
\* a key given twice keeps its last value
ParseMembers(s, i, props) ==
  IF ~StartsWith(s, i, "\"") THEN ParseFail
  ELSE LET key == StringBody(s, i + 1, "")
       IN IF ~key.ok \/ ~StartsWith(s, Skip(s, JsonSpace, key.i), ":") THEN ParseFail
          ELSE LET val == ParseValue(s, Skip(s, JsonSpace, key.i) + 1)
               IN IF ~val.ok THEN ParseFail
                  ELSE LET d == Skip(s, JsonSpace, val.i)
                           all == (key.v.s :> val.v) @@ props
                       IN IF StartsWith(s, d, "}") THEN ParseOk(Obj(all), d + 1)
                          ELSE IF StartsWith(s, d, ",")
                               THEN ParseMembers(s, Skip(s, JsonSpace, d + 1), all)
                               ELSE ParseFail

\* the elements of an array from position i, items being those read
ParseElements(s, i, items) ==
  LET val == ParseValue(s, i)
  IN IF ~val.ok THEN ParseFail
     ELSE LET d == Skip(s, JsonSpace, val.i)
          IN IF StartsWith(s, d, "]") THEN ParseOk(Arr(Append(items, val.v)), d + 1)
             ELSE IF StartsWith(s, d, ",") THEN ParseElements(s, d + 1, Append(items, val.v))
                  ELSE ParseFail

\* JSON.parse(text) returns (it raises SyntaxError otherwise)
JsonParses(text) ==
  LET res == ParseValue(text, 1) IN res.ok /\ Skip(text, JsonSpace, res.i) > Len(text)

\* try { return JSON.parse(text) } catch { return null }
safeJsonParse(text) ==
  LET res == ParseValue(text, 1)
  IN IF res.ok /\ Skip(text, JsonSpace, res.i) > Len(text) THEN res.v ELSE Null

\* the first position from i on where word starts, letter case ignored; 0 when nowhere
Find(s, word, i) ==
  LET at == {j \in i..(Len(s) - Len(word) + 1) :
               /\ LowerChar(At(s, j)) = At(word, 1)
               /\ toLowerCase(SubSeq(s, j, j + Len(word) - 1)) = word}
  IN IF at = {} THEN 0 ELSE SetMin(at)

Fence == Backtick \o Backtick \o Backtick

RECURSIVE RemoveJsonFences(_, _)
\* s.replace(/```json\s*/gi, "") from position i on
RemoveJsonFences(s, i) ==
  LET j == Find(s, Fence \o "json", i)
  IN IF j = 0 THEN SliceFrom(s, i - 1)
     ELSE SubSeq(s, i, j - 1) \o RemoveJsonFences(s, Skip(s, WhiteSpace, j + 7))

RECURSIVE RemoveFences(_, _)
\* s.replace(/```/g, "") from position i on
RemoveFences(s, i) ==
  LET j == Find(s, Fence, i)
  IN IF j = 0 THEN SliceFrom(s, i - 1)
     ELSE SubSeq(s, i, j - 1) \o RemoveFences(s, j + 3)

RECURSIVE ScanBraces(_, _, _)
\* the loop over cleaned from position i with the depth reached: the position of
\* the "}" that brings the depth to 0, or 0 when the text ends first
ScanBraces(s, i, depth) ==
  LET j == IndexIn(s, {"{", "}"}, i)
  IN IF j = 0 THEN 0
     ELSE IF At(s, j) = "{" THEN ScanBraces(s, j + 1, depth + 1)
     ELSE IF depth - 1 = 0 THEN j
     ELSE ScanBraces(s, j + 1, depth - 1)

\* extractFirstJsonObject(text): the string returned, Null for null
extractFirstJsonObject(text) ==
  IF text = "" THEN Null
  ELSE LET cleaned == Trim(RemoveFences(RemoveJsonFences(text, 1), 1))
           start == IndexIn(cleaned, {"{"}, 1)
           end == ScanBraces(cleaned, start, 0)
       IN IF start = 0 \/ end = 0 THEN Null ELSE Str(SubSeq(cleaned, start, end))

\* !v
Falsy(v) ==
  \/ v.t \in {"undef", "null"}
  \/ v.t = "bool" /\ ~v.b
  \/ v.t = "num" /\ v.n = 0
  \/ v.t = "str" /\ v.s = ""

\* let parsed = safeJsonParse(content); if (!parsed) { ... }
Coerced(content) ==
  LET direct == safeJsonParse(content)
      extracted == extractFirstJsonObject(content)
  IN IF ~Falsy(direct) THEN direct
     ELSE IF extracted # Null THEN safeJsonParse(extracted.s)
     ELSE direct

(***************************************************************************)
(* The Tailor operation: POST of src/app/api/tailor/route.ts.               *)
(***************************************************************************)
MAX_CHARS == 35000

\* the least length of the job text and of the resume content
MIN_CHARS == 50

\* content.slice(0, 4000)
RAW_CHARS == 4000

RECURSIVE RemoveNul(_, _)
\* s.replace(/\u0000/g, "") from position i on
RemoveNul(s, i) ==
  LET j == IndexIn(s, {Nul}, i)
  IN IF j = 0 THEN SliceFrom(s, i - 1) ELSE SubSeq(s, i, j - 1) \o RemoveNul(s, j + 1)

clamp(s) == SliceTo(Trim(RemoveNul(s, 1)), MAX_CHARS)

\* what a render collaborator returns: a document determined by what it is given
Document(kind, of) == [kind |-> kind, of |-> of]

TooShortJob == [status |-> 400, body |-> [error |-> "Job posting text is too short."]]

\* the 400 answer with the resume content sent along
TooShortResumeEcho ==
  [status |-> 400,
   body |-> [error |-> "Resume content is too short. Upload a PDF or paste resume text.",
             original_resume |-> ""]]

TooShortResume ==
  [status |-> 400,
   body |-> [error |-> "Resume content is too short. Upload a PDF or paste resume text."]]

\* the 502 answer with the whole model output as raw
UnparseableWhole(content) ==
  [status |-> 502, body |-> [error |-> "AI response could not be parsed.", raw |-> content]]

Unparseable(content) ==
  [status |-> 502,
   body |-> [error |-> "AI response could not be parsed.", raw |-> SliceTo(content, RAW_CHARS)]]

\* the answer of the catch block
ServerError(message) == [status |-> 500, body |-> [error |-> "Server error.", details |-> message]]

\* !parsed?.resume || !parsed?.cover_letter
LacksFields(parsed) == Falsy(Get(parsed, "resume")) \/ Falsy(Get(parsed, "cover_letter"))

\* the body of the 200 answer
TailorResult(originalResume, resume, cover_letter) ==
  [original_resume |-> originalResume,
   tailored_resume |-> clamp(formatResumeATS(resume)),
   resume |-> resume,
   cover_letter |-> cover_letter,
   resume_pdf_base64 |->
     Document("ResumePdf", <<resume, clamp(formatResumeATS(resume))>>),
   cover_letter_pdf_base64 |-> Document("CoverLetterPdf", cover_letter),
   resume_docx_base64 |-> Document("ResumeDocx", resume),
   cover_letter_docx_base64 |-> Document("CoverLetterDocx", cover_letter)]

(***************************************************************************)
(* The raw resumes normalizeResume is applied to: what JSON.parse can      *)
(* yield for the resume field of a model response.                         *)
(***************************************************************************)
SeqsUpTo(S, n) == UNION {[1..k -> S] : k \in 0..n}

\* an object whose own property toString is not callable
Unprintable == Obj([toString |-> Num(1)])

RawResumes ==
  LET ScalarInputs ==
        {Undef, Null, Str(""), Str(" \n"), Str("  Ann Lee "), Num(42), Num(0), Bool(FALSE),
         Arr(<<Str(" x"), Null, Num(7)>>), Arr(<<>>), Obj(NoProps), Unprintable}

      LinkInputs ==
        {Obj([label |-> Str(" gh "), url |-> Str("u.io ")]), Obj([label |-> Str(" "), url |-> Str("")]),
         Obj([url |-> Num(42)]), Null}

      ElementInputs == {Str("go"), Str(" ts "), Str(""), Str(" "), Null, Num(1)}

      ListInputs == {Undef, Str("go")} \cup {Arr(a) : a \in SeqsUpTo(ElementInputs, MaxList)}

      HeaderInputs ==
        {Obj([header |-> Obj([name |-> n, location |-> l, email |-> Str("a@b.c"), links |-> k])]) :
           n \in ScalarInputs, l \in {Undef, Str(" NYC "), Str("  "), Num(42)},
           k \in {Undef, Str("x")} \cup {Arr(a) : a \in SeqsUpTo(LinkInputs, MaxList)}}

      SkillsInputs ==
        {Obj([summary |-> s, skills |-> Obj([languages |-> l, tools |-> t])]) :
           s \in ScalarInputs, l \in ListInputs, t \in {Undef, Arr(<<Str("git"), Unprintable>>)}}

      ExperienceInputs ==
        {Obj([company |-> c, title |-> t] @@ x) :
           c \in {Undef, Str(" Acme "), Str(" "), Num(42)}, t \in {Null, Str("Dev"), Str("")},
           x \in {NoProps,
                  [location |-> Str(" "), start |-> Num(2020), end |-> Null,
                   bullets |-> Arr(<<Str(" led x "), Str(""), Null>>)]}}
        \cup {Null, Str("Acme"), Obj([title |-> Str("X")]), Obj([company |-> Str("C"), title |-> Str("T")])}

      ProjectInputs ==
        {Obj([name |-> n, tech |-> t, bullets |-> Arr(<<Str("built  it"), Str("")>>)]) :
           n \in {Undef, Str(" Site "), Str("\t"), Num(0)}, t \in {Str("ts"), Arr(<<Str("ts"), Num(3)>>)}}
        \cup {Obj(NoProps)}

      EducationInputs ==
        {Obj([school |-> n, degree |-> d, year |-> Num(2020), details |-> Arr(<<Bool(TRUE)>>)]) :
           n \in {Null, Str(" MIT"), Str("  ")}, d \in {Undef, Str(" BSc "), Str(" ")}}
        \cup {Num(5)}

      EntryInputs ==
        {Obj([experience |-> Arr(a)]) : a \in SeqsUpTo(ExperienceInputs, MaxList)}
        \cup {Obj([projects |-> Arr(a)]) : a \in SeqsUpTo(ProjectInputs, MaxList)}
        \cup {Obj([education |-> Arr(a)]) : a \in SeqsUpTo(EducationInputs, MaxList)}

      \* values of the wrong type altogether
      OddInputs ==
        {Undef, Null, Str("resume"), Num(7), Arr(<<>>), Obj(NoProps), Unprintable,
         Obj([header |-> Str("h"), summary |-> Num(5), skills |-> Num(3), experience |-> Str("none"),
              projects |-> Obj(NoProps), education |-> Null]),
         Obj([header |-> Obj([name |-> Str("")])])}
  IN OddInputs \cup HeaderInputs \cup SkillsInputs \cup EntryInputs

(***************************************************************************)
(* The job texts extractJobKeywords is applied to: words separated by      *)
(* blanks.                                                                 *)
(***************************************************************************)
Vocabulary ==
  {"Python3", "aws2024", "go", "TypeScript", "ts", "The", "SQL.", "c++", "node", "ab"}

\* job texts naming technologies and synonyms, as postings write them
TechTexts ==
  {"c++ c# node.js ci/cd",
   "We use C++, C#, Node.js and CI/CD.",
   "go go TypeScript ts typescript",
   "JavaScript and js, Node and node.js; node",
   "react node.js sql"}

JobTexts == {JoinStr(w, " ") : w \in SeqsUpTo(Vocabulary, MaxWords)} \cup TechTexts

(***************************************************************************)
(* The resumes formatResumeATS is applied to: values of type               *)
(* TailoredResume, and what normalizeResume returns for them.              *)
(***************************************************************************)
TypedResumes ==
  LET Ann == Obj([name |-> Str("Ann")])
      Headers ==
        {Obj([name |-> Str("")]),
         Obj([name |-> Str(" Ann  Lee "), location |-> Str("NYC"), email |-> Str("a@b.c"),
              phone |-> Str("")]),
         Obj([name |-> Str("Ann"),
              links |-> Arr(<<Obj([label |-> Str("gh"), url |-> Str("u.io")]),
                              Obj([label |-> Str("blog"), url |-> Str("")])>>)]),
         Obj([name |-> Str("Ann"), links |-> Arr(<<Obj([label |-> Str("u.io"), url |-> Str("")])>>)]),
         Obj([name |-> Str("-- SUMMARY --")])}
      Summaries ==
        {Str(""), Str("  "), Str(" Builds  things. "), Str("Leads.\n-- SKILLS --\nShips.")}
      SkillSets ==
        {Obj(NoProps),
         Obj([languages |-> Arr(<<Str("Go"), Str("SQL")>>), tools |-> Arr(<<>>)]),
         Obj([languages |-> Arr(<<Str("Go, SQL")>>)]),
         Obj([frameworks |-> Arr(<<Str("React")>>), tools |-> Arr(<<Str("git")>>),
              other |-> Arr(<<Str("")>>)])}
      ExperienceEntries ==
        {Obj([company |-> Str("Acme"), title |-> Str("Dev"), location |-> Str("NYC"),
              start |-> Str("2020"), end |-> Str("2022"),
              bullets |-> Arr(<<Str(" led  x "), Str("  "), Str("built y")>>)]),
         Obj([company |-> Str("Acme"), title |-> Str("Dev"), start |-> Str("2020")]),
         Obj([company |-> Str("Acme"), title |-> Str("Dev"), end |-> Str("2020"),
              bullets |-> Arr(<<>>)]),
         Obj([company |-> Str("Acme"), title |-> Str("Dev"), location |-> Str(" "),
              bullets |-> Arr(<<Str(" ")>>)])}
      ProjectEntries ==
        {Obj([name |-> Str("Site"), tech |-> Arr(<<Str("ts"), Str(" ")>>),
              bullets |-> Arr(<<Str("built  it")>>)]),
         Obj([name |-> Str("Site")]),
         Obj([name |-> Str("-- EDUCATION --"), bullets |-> Arr(<<Str("")>>)])}
      EducationEntries ==
        {Obj([school |-> Str("MIT"), degree |-> Str("BSc"), location |-> Str("MA"),
              year |-> Str("2019"), details |-> Arr(<<Str("cum  laude"), Str("")>>)]),
         Obj([school |-> Str("MIT"), year |-> Str("2019")]),
         Obj([school |-> Str("")])}
  IN {Obj([header |-> h]) : h \in Headers}
     \cup {Obj([header |-> Ann, summary |-> x]) : x \in Summaries}
     \cup {Obj([header |-> Ann, skills |-> x]) : x \in SkillSets}
     \cup {Obj([header |-> Ann, experience |-> Arr(a)]) : a \in SeqsUpTo(ExperienceEntries, MaxList)}
     \cup {Obj([header |-> Ann, projects |-> Arr(a)]) : a \in SeqsUpTo(ProjectEntries, MaxList)}
     \cup {Obj([header |-> Ann, education |-> Arr(a)]) : a \in SeqsUpTo(EducationEntries, MaxList)}
     \cup {Obj([header |-> Ann, summary |-> Str("Builds things."),
                experience |-> Arr(<<Obj([company |-> Str("Acme"), title |-> Str("Dev")])>>),
                education |-> Arr(<<Obj([school |-> Str("MIT")])>>)])}

\* the resumes normalizeResume returns
NormalizedResumes == {normalizeResume(x) : x \in TypedResumes}

FormatResumes == TypedResumes \cup NormalizedResumes

\* the job texts and the resume texts analyzeAts is applied to
AtsJobTexts == {JoinStr(w, " ") : w \in SeqsUpTo(Vocabulary, MaxAtsWords)} \cup TechTexts

AtsResumeTexts ==
  {"", "React and SQL developer.", "I write TS and Go; Node.js too.", "Django scripts",
   "TypeScript, C++ and CI/CD"}

\* the values of the parameter max: small ones, and its default
MaxInputs == {1, 2, DefaultMax}

(***************************************************************************)
(* The requests and the model replies of the Tailor operation.             *)
(***************************************************************************)
RECURSIVE Repeat(_, _)
\* s repeated n times
Repeat(s, n) ==
  IF n = 0 THEN ""
  ELSE IF n % 2 = 0 THEN Repeat(s \o s, n \div 2)
  ELSE s \o Repeat(s, n - 1)

LongResume == "Ann Lee. Engineer at Acme since 2020: built Go services and SQL pipelines."

\* jobText, resumeText and resumePdf of the form; resumePdf is no file, a file of
\* size 0, or a file with content
Forms ==
  LET LongJob == "Senior engineer: Go, TypeScript and SQL. Five years of backend work."
      \* 50 characters and more as sent, fewer once NUL is removed and the text trimmed
      PaddedJob == Repeat(" ", 30) \o "Go engineer" \o Repeat(Nul, 30)
  IN
  [jobText : {"Engineer", PaddedJob, LongJob},
   resumeText : {"", LongResume},
   resumePdf : {"none", "empty", "file"}]

\* the texts extractTextFromPdf returns
ExtractedTexts == {"", "Ann Lee", "Ann Lee, engineer. " \o LongResume}

\* a model reply: commentary, a body that may be fenced, prose
Replies ==
  LET Letter == "Dear team, I build Go services."

      PlainBody ==
        [text |-> "{\"resume\":{\"header\":{\"name\":\"Ann\"}},\"cover_letter\":\"Dear team, I build Go services.\"}",
         object |-> Obj([resume |-> Obj([header |-> Obj([name |-> Str("Ann")])]),
                         cover_letter |-> Str(Letter)])]

      PrettyBody ==
        [text |-> "{\n \"resume\": {\"header\": {\"name\": 7, \"links\": [{\"url\": \"u.io\"}]},\n  \"experience\": [{\"company\": \"Acme\", \"title\": \"Dev\", \"bullets\": [\" led x \", null]}, {\"title\": \"X\"}]},\n \"cover_letter\": \"Dear \\\"team\\\", I build Go services.\"\n}",
         object |-> Obj([resume |->
                           Obj([header |-> Obj([name |-> Num(7),
                                                links |-> Arr(<<Obj([url |-> Str("u.io")])>>)]),
                                experience |->
                                  Arr(<<Obj([company |-> Str("Acme"), title |-> Str("Dev"),
                                             bullets |-> Arr(<<Str(" led x "), Null>>)]),
                                        Obj([title |-> Str("X")])>>)]),
                         cover_letter |-> Str("Dear \"team\", I build Go services.")])]

      \* a string value with balanced braces
      BracesBody ==
        [text |-> "{\"resume\":{\"header\":{\"name\":\"Ann\"}},\"cover_letter\":\"Dear {team}, I build Go services.\"}",
         object |-> Obj([resume |-> Obj([header |-> Obj([name |-> Str("Ann")])]),
                         cover_letter |-> Str("Dear {team}, I build Go services.")])]

      \* a string value with a closing brace
      SmileyBody ==
        [text |-> "{\"resume\":{\"header\":{\"name\":\"Ann\"}},\"cover_letter\":\"Dear team :} I build Go services.\"}",
         object |-> Obj([resume |-> Obj([header |-> Obj([name |-> Str("Ann")])]),
                         cover_letter |-> Str("Dear team :} I build Go services.")])]

      \* a string value with a code fence
      FenceBody ==
        [text |-> "{\"resume\":{\"header\":{\"name\":\"Ann\"}},\"cover_letter\":\"Dear team, I write "
                  \o Fence \o "go" \o Fence \o " daily.\"}",
         object |-> Obj([resume |-> Obj([header |-> Obj([name |-> Str("Ann")])]),
                         cover_letter |-> Str("Dear team, I write " \o Fence \o "go" \o Fence \o " daily.")])]

      \* a name String() cannot print
      UnprintableBody ==
        [text |-> "{\"resume\":{\"header\":{\"name\":{\"toString\":1}}},\"cover_letter\":\"Dear team, I build Go services.\"}",
         object |-> Obj([resume |-> Obj([header |-> Obj([name |-> Unprintable])]),
                         cover_letter |-> Str(Letter)])]

      \* a valid object of another shape
      NoLetterBody ==
        [text |-> "{\"resume\":{\"header\":{\"name\":\"Ann\"}}}",
         object |-> Obj([resume |-> Obj([header |-> Obj([name |-> Str("Ann")])])])]

      \* a cover letter of a few characters
      ShortLetterBody ==
        [text |-> "{\"resume\":{\"header\":{\"name\":\"Ann\"}},\"cover_letter\":\"Hi Ann.\"}",
         object |-> Obj([resume |-> Obj([header |-> Obj([name |-> Str("Ann")])]),
                         cover_letter |-> Str("Hi Ann.")])]

      \* a summary that holds U+0000
      NulBody ==
        [text |-> "{\"resume\":{\"header\":{\"name\":\"Ann\"},\"summary\":\"Builds\\u0000things.\"},\"cover_letter\":\"Dear team, I build Go services.\"}",
         object |-> Obj([resume |-> Obj([header |-> Obj([name |-> Str("Ann")]),
                                         summary |-> Str("Builds" \o Nul \o "things.")]),
                         cover_letter |-> Str(Letter)])]

      \* texts that are no JSON object: cut short, closed twice, prose, nothing, very long
      BrokenTexts ==
        {"{\"resume\":{\"header\":{\"name\":\"Ann\"}},\"cover_letter\":\"Dear team, I bu",
         "{\"resume\":{\"header\":{\"name\":\"Ann\"}},\"cover_letter\":\"Dear team, I build Go services.\"",
         "{\"resume\":{\"header\":{\"name\":\"Ann\"}},\"cover_letter\":\"Dear team, I build Go services.\"}}",
         "Sorry, I cannot help with that.",
         "",
         "{\"resume\":" \o Repeat("x", RAW_CHARS + 100)}

      ReplyBodies ==
        {PlainBody, PrettyBody, BracesBody, SmileyBody, FenceBody, UnprintableBody, NoLetterBody,
         ShortLetterBody, NulBody}
        \cup {[text |-> t, object |-> Undef] : t \in BrokenTexts}
  IN [lead : {"", "Here is the result:\n", "Result {draft}: "},
     fenced : BOOLEAN,
     body : ReplyBodies,
     trail : {"", "\nHope this helps!", " }"}]

NoReply == [lead |-> "", fenced |-> FALSE, body |-> [text |-> "", object |-> Undef], trail |-> ""]

\* the model output of a reply
ContentOf(reply) ==
  reply.lead
  \o (IF reply.fenced THEN Fence \o "json\n" \o reply.body.text \o "\n" \o Fence
      ELSE reply.body.text)
  \o reply.trail

NoResponse == [status |-> 0, body |-> NoProps]

(***************************************************************************)
(* State.                                                                  *)
(***************************************************************************)
VARIABLES
  r,        \* normalizeResume: its argument
  resume,   \* normalizeResume: the value returned
  again,    \* normalizeResume applied to the value it returned
  npc,      \* "idle", "call", "returned", "threw", "renormalized"
  jobText,  \* extractJobKeywords: the job text
  max,      \* extractJobKeywords: the parameter max
  keywords, \* extractJobKeywords: the list returned
  kpc,      \* "idle", "call", "done"
  form,     \* Tailor: the form data of the request
  tpc,      \* Tailor: "idle", "start", "extract", "check", "llm", "coerce", "render", "done"
  originalResume, \* Tailor: the resume content
  reply,    \* Tailor: what the model replied
  content,  \* Tailor: the model output
  work,     \* Tailor: resume and cover_letter, once computed
  response, \* Tailor: the answer to the request
  calls,    \* Tailor: the functions called so far, in order
  atsJob,   \* analyzeAts: the job text
  atsResume, \* analyzeAts: the resume text
  ats,      \* analyzeAts: the value returned
  apc,      \* "idle", "call", "done"
  fa,       \* formatResumeATS: its argument
  ta,       \* formatResumeATS: the text the first call returned
  tb,       \* formatResumeATS: the text the second call on fa returned
  fpc,      \* "idle", "call", "once", "twice"
  rbody,    \* Regenerate: the body of the request
  rpc,      \* Regenerate: "idle", "start", "check", "render", "done"
  rendered, \* Regenerate: the answer to the request
  rcalls,   \* Regenerate: the functions called so far, in order
  mounted,  \* page: the mount effect has run
  now,      \* page: Date.now()
  job,      \* page: jobText
  data,     \* page: data
  editedResume, \* page: editedResume
  error,    \* page: error
  history,  \* page: history
  historyInfo, \* page: historyInfo
  selectedHistoryId, \* page: selectedHistoryId
  stored,   \* page: the entries held by localStorage under HISTORY_KEY
  tailoring, \* page: the onTailor call that awaits its response, with what it captured
  regenerating, \* page: the onRegenerate call that awaits its response, with what it captured
  quota,    \* page: what localStorage has room for: "files", "text" or "none"
  clicks,   \* page: the clicks on the history list so far, and the entries they removed
  regens,   \* page: the Regenerate requests so far
  edit      \* page: the bullet edits made so far and the last of them

normalizeVars == <<r, resume, again, npc>>

keywordVars == <<jobText, max, keywords, kpc>>

tailorVars == <<form, tpc, originalResume, reply, content, work, response, calls>>

atsVars == <<atsJob, atsResume, ats, apc>>

formatVars == <<fa, ta, tb, fpc>>

renderVars == <<rbody, rpc, rendered, rcalls>>

pageVars ==
  <<mounted, now, job, data, editedResume, error, history, historyInfo, selectedHistoryId,
    stored, tailoring, regenerating, quota, clicks, regens, edit>>

vars == <<normalizeVars, keywordVars, tailorVars, atsVars, formatVars, renderVars, pageVars>>

\* the parts of the program a specification leaves out stay idle
NormalizeIdle == r = Undef /\ resume = Undef /\ again = Undef /\ npc = "idle"

KeywordsIdle == jobText = "" /\ max = DefaultMax /\ keywords = <<>> /\ kpc = "idle"

NoForm == [jobText |-> "", resumeText |-> "", resumePdf |-> "none"]

NoWork == [resume |-> Undef, cover_letter |-> ""]

NoAts == [score |-> 0, keywords |-> <<>>, present |-> <<>>, missing |-> <<>>]

AtsIdle == atsJob = "" /\ atsResume = "" /\ ats = NoAts /\ apc = "idle"

FormatIdle == fa = Undef /\ ta = "" /\ tb = "" /\ fpc = "idle"

TailorIdle ==
  /\ form = NoForm /\ tpc = "idle" /\ originalResume = "" /\ reply = NoReply
  /\ content = "" /\ work = NoWork /\ response = NoResponse /\ calls = <<>>

RegenerateIdle == rbody = Undef /\ rpc = "idle" /\ rendered = NoResponse /\ rcalls = <<>>

\* no call in flight
NoCall == [on |-> FALSE]

\* no bullet edited yet
NoEdit == [n |-> 0]

NoClick == [n |-> 0, removed |-> {}]

PageIdle ==
  /\ mounted = FALSE /\ now = 0 /\ job = "" /\ data = Null /\ editedResume = Null
  /\ error = Null /\ history = <<>> /\ historyInfo = Null /\ selectedHistoryId = Null
  /\ stored = <<>> /\ tailoring = NoCall /\ regenerating = NoCall
  /\ quota = "files" /\ clicks = NoClick /\ regens = 0 /\ edit = NoEdit

(***************************************************************************)
(* normalizeResume as a process: called on r, it returns or raises; the    *)
(* value returned can be normalized again.                                 *)
(***************************************************************************)
NormalizeInit ==
  /\ r \in RawResumes
  /\ resume = Undef
  /\ again = Undef
  /\ npc = "call"
  /\ KeywordsIdle
  /\ TailorIdle
  /\ AtsIdle
  /\ FormatIdle
  /\ RegenerateIdle
  /\ PageIdle

Normalize ==
  /\ npc = "call"
  /\ IF normalizeResumeThrows(r)
     THEN npc' = "threw" /\ resume' = Undef
     ELSE npc' = "returned" /\ resume' = normalizeResume(r)
  /\ UNCHANGED <<r, again, keywordVars, tailorVars, atsVars, formatVars, renderVars, pageVars>>

Renormalize ==
  /\ npc = "returned"
  /\ ~normalizeResumeThrows(resume)
  /\ again' = normalizeResume(resume)
  /\ npc' = "renormalized"
  /\ UNCHANGED <<r, resume, keywordVars, tailorVars, atsVars, formatVars, renderVars, pageVars>>

NormalizeNext == Normalize \/ Renormalize

SpecNormalize == NormalizeInit /\ [][NormalizeNext]_vars

(***************************************************************************)
(* extractJobKeywords as a process: called on a job text and a max.        *)
(***************************************************************************)
KeywordsInit ==
  /\ jobText \in JobTexts
  /\ max \in MaxInputs
  /\ keywords = <<>>
  /\ kpc = "call"
  /\ NormalizeIdle
  /\ TailorIdle
  /\ AtsIdle
  /\ FormatIdle
  /\ RegenerateIdle
  /\ PageIdle

ExtractKeywords ==
  /\ kpc = "call"
  /\ keywords' = extractJobKeywords(jobText, max)
  /\ kpc' = "done"
  /\ UNCHANGED <<jobText, max, normalizeVars, tailorVars, atsVars, formatVars, renderVars, pageVars>>

KeywordsNext == ExtractKeywords

SpecKeywords == KeywordsInit /\ [][KeywordsNext]_vars

(***************************************************************************)
(* analyzeAts as a process: called on a job text and a resume text.        *)
(***************************************************************************)
AtsInit ==
  /\ atsJob \in AtsJobTexts
  /\ atsResume \in AtsResumeTexts
  /\ ats = NoAts
  /\ apc = "call"
  /\ NormalizeIdle
  /\ KeywordsIdle
  /\ TailorIdle
  /\ FormatIdle
  /\ RegenerateIdle
  /\ PageIdle

AnalyzeAts ==
  /\ apc = "call"
  /\ ats' = analyzeAts(atsJob, atsResume)
  /\ apc' = "done"
  /\ UNCHANGED <<atsJob, atsResume, normalizeVars, keywordVars, tailorVars, formatVars, renderVars, pageVars>>

AtsNext == AnalyzeAts

SpecAts == AtsInit /\ [][AtsNext]_vars

(***************************************************************************)
(* formatResumeATS as a process: called on a resume, and called on it      *)
(* again.                                                                  *)
(***************************************************************************)
FormatInit ==
  /\ fa \in FormatResumes
  /\ ta = ""
  /\ tb = ""
  /\ fpc = "call"
  /\ NormalizeIdle
  /\ KeywordsIdle
  /\ TailorIdle
  /\ AtsIdle
  /\ RegenerateIdle
  /\ PageIdle

Format ==
  /\ fpc = "call"
  /\ ta' = formatResumeATS(fa)
  /\ fpc' = "once"
  /\ UNCHANGED <<fa, tb, normalizeVars, keywordVars, tailorVars, atsVars, renderVars, pageVars>>

FormatAgain ==
  /\ fpc = "once"
  /\ tb' = formatResumeATS(fa)
  /\ fpc' = "twice"
  /\ UNCHANGED <<fa, ta, normalizeVars, keywordVars, tailorVars, atsVars, renderVars, pageVars>>

FormatNext == Format \/ FormatAgain

SpecFormat == FormatInit /\ [][FormatNext]_vars

(***************************************************************************)
(* The Tailor operation as a process: one request, from the form to the    *)
(* answer.  Each action is the code between two awaits.                    *)
(***************************************************************************)
TailorInit ==
  /\ form \in Forms
  /\ tpc = "start"
  /\ originalResume = ""
  /\ reply = NoReply
  /\ content = ""
  /\ work = NoWork
  /\ response = NoResponse
  /\ calls = <<>>
  /\ NormalizeIdle
  /\ KeywordsIdle
  /\ AtsIdle
  /\ FormatIdle
  /\ RegenerateIdle
  /\ PageIdle

\* the handler returns an answer
Respond(answer) == response' = answer /\ tpc' = "done"

\* the job text is validated; the resume content is the fallback text unless a
\* file with content was uploaded
ReadForm ==
  /\ tpc = "start"
  /\ IF Len(Trim(clamp(form.jobText))) < MIN_CHARS
     THEN Respond(TooShortJob) /\ UNCHANGED originalResume
     ELSE IF form.resumePdf = "file"
          THEN tpc' = "extract" /\ UNCHANGED <<originalResume, response>>
          ELSE /\ originalResume' = clamp(form.resumeText)
               /\ tpc' = "check"
               /\ UNCHANGED response
  /\ UNCHANGED <<form, reply, content, work, calls, normalizeVars, keywordVars, atsVars, formatVars, renderVars, pageVars>>

\* await extractTextFromPdf(...) with the fallback text taken when it raises
ExtractPdfFallback ==
  /\ tpc = "extract"
  /\ calls' = Append(calls, "extractTextFromPdf")
  /\ \/ originalResume' = clamp(form.resumeText) /\ tpc' = "check" /\ UNCHANGED response
     \/ \E text \in ExtractedTexts :
          originalResume' = clamp(text) /\ tpc' = "check" /\ UNCHANGED response
  /\ UNCHANGED <<form, reply, content, work, normalizeVars, keywordVars, atsVars, formatVars, renderVars, pageVars>>

\* await extractTextFromPdf(...): it raises or returns the text of the file
ExtractPdf ==
  /\ tpc = "extract"
  /\ calls' = Append(calls, "extractTextFromPdf")
  /\ \/ Respond(ServerError("extractTextFromPdf")) /\ UNCHANGED originalResume
     \/ \E text \in ExtractedTexts :
          originalResume' = clamp(text) /\ tpc' = "check" /\ UNCHANGED response
  /\ UNCHANGED <<form, reply, content, work, normalizeVars, keywordVars, atsVars, formatVars, renderVars, pageVars>>

\* the resume content is validated
CheckResume ==
  /\ tpc = "check"
  /\ IF Len(Trim(originalResume)) < MIN_CHARS
     THEN Respond(TooShortResume)
     ELSE tpc' = "llm" /\ UNCHANGED response
  /\ UNCHANGED <<form, originalResume, reply, content, work, calls, normalizeVars, keywordVars, atsVars, formatVars, renderVars, pageVars>>

\* await groq.chat.completions.create(...): it raises or returns the model output
Complete ==
  /\ tpc = "llm"
  /\ calls' = Append(calls, "groq.chat.completions.create")
  /\ \/ Respond(ServerError("groq")) /\ UNCHANGED <<reply, content>>
     \/ \E rp \in Replies :
          reply' = rp /\ content' = ContentOf(rp) /\ tpc' = "coerce" /\ UNCHANGED response
  /\ UNCHANGED <<form, originalResume, work, normalizeVars, keywordVars, atsVars, formatVars, renderVars, pageVars>>

\* the model output is coerced to JSON and the resume normalized and formatted
Coerce_ ==
  /\ tpc = "coerce"
  /\ LET parsed == Coerced(content)
     IN IF LacksFields(parsed)
        THEN Respond(Unparseable(content)) /\ UNCHANGED <<work, calls>>
        ELSE IF normalizeResumeThrows(Get(parsed, "resume"))
        THEN /\ Respond(ServerError("TypeError"))
             /\ calls' = Append(calls, "normalizeResume")
             /\ UNCHANGED work
        ELSE IF StringThrows(OrEmpty(Get(parsed, "cover_letter")))
        THEN /\ Respond(ServerError("TypeError"))
             /\ calls' = Append(calls, "normalizeResume")
             /\ UNCHANGED work
        ELSE /\ work' = [resume |-> normalizeResume(Get(parsed, "resume")),
                         cover_letter |-> clamp(String(OrEmpty(Get(parsed, "cover_letter"))))]
             /\ calls' = calls \o <<"normalizeResume", "formatResumeATS">>
             /\ tpc' = "render"
             /\ UNCHANGED response
  /\ UNCHANGED <<form, originalResume, reply, content, normalizeVars, keywordVars, atsVars, formatVars, renderVars, pageVars>>

\* await renderPdfToBuffer(...) twice, buildResumeDocx, buildCoverLetterDocx: one
\* of them raises, or they return and the handler answers 200
Render ==
  /\ tpc = "render"
  /\ \/ /\ calls' = Append(calls, "renderPdfToBuffer")
        /\ Respond(ServerError("renderPdfToBuffer"))
     \/ /\ calls' = calls \o <<"renderPdfToBuffer", "renderPdfToBuffer", "buildResumeDocx",
                               "buildCoverLetterDocx">>
        /\ Respond([status |-> 200,
                    body |-> TailorResult(originalResume, work.resume, work.cover_letter)])
  /\ UNCHANGED <<form, originalResume, reply, content, work, normalizeVars, keywordVars, atsVars, formatVars, renderVars, pageVars>>

TailorNext == ReadForm \/ ExtractPdf \/ CheckResume \/ Complete \/ Coerce_ \/ Render

SpecTailor == TailorInit /\ [][TailorNext]_vars

(***************************************************************************)
(* The Regenerate operation: POST of src/app/api/render/route.ts, for      *)
(* bodies whose resume, when it has a name, is a TailoredResume.           *)
(***************************************************************************)
MIN_COVER == 10

\* a request whose body req.json() cannot parse
NotJson == [t |-> "text"]

MissingResume == [status |-> 400, body |-> [error |-> "Missing resume payload."]]

MissingCover == [status |-> 400, body |-> [error |-> "Missing cover letter text."]]

\* the answer of the catch block: err?.message || "Server error."
RenderError(message) ==
  [status |-> 500, body |-> [error |-> IF message = "" THEN "Server error." ELSE message]]

\* String(body.cover_letter ?? "") with no trim
CoverOfRaw(body) == String(OrEmpty(Get(body, "cover_letter")))

\* String(body.cover_letter ?? "").trim()
CoverOf(body) == Trim(String(OrEmpty(Get(body, "cover_letter"))))

\* the body of the 200 answer
RenderResult(sent, cover) ==
  [tailored_resume |-> formatResumeATS(sent),
   resume |-> sent,
   cover_letter |-> cover,
   resume_pdf_base64 |-> Document("ResumePdf", <<sent, formatResumeATS(sent)>>),
   cover_letter_pdf_base64 |-> Document("CoverLetterPdf", cover),
   resume_docx_base64 |->
     Document("renderDocxBase64FromText", <<formatResumeATS(sent), "Tailored Resume">>),
   cover_letter_docx_base64 |-> Document("renderDocxBase64FromText", <<cover, "Cover Letter">>)]

\* what the handler answers before it renders, NoResponse when it goes on to render
Refusal(body) ==
  IF Falsy(Get(Get(Get(body, "resume"), "header"), "name")) THEN MissingResume
  ELSE IF StringThrows(OrEmpty(Get(body, "cover_letter")))
  THEN RenderError("Cannot convert object to primitive value")
  ELSE IF Len(CoverOf(body)) < MIN_COVER THEN MissingCover
  ELSE NoResponse

\* the bodies sent: no JSON, null, and objects with or without a resume and a
\* cover letter
RenderBodies ==
  LET Resumes ==
        NormalizedResumes
        \cup {Undef, Null, Str("Ann"), Obj(NoProps), Obj([header |-> Obj(NoProps)]),
              Obj([header |-> Obj([name |-> Str("")])]),
              Obj([header |-> Obj([name |-> Null]), summary |-> Str("Builds things.")])}
      Covers ==
        {Undef, Null, Str(""), Str("Hi Ann."), Str("  Dear Ann\n"), Str("Dear team"),
         Str("Dear team."), Str(" Dear team, I build Go services.\n"), Num(1234567890),
         Unprintable}
  IN {NotJson, Null, Obj(NoProps)}
     \cup {Obj([resume |-> x, cover_letter |-> c]) : x \in Resumes, c \in Covers}
     \cup {Obj([resume |-> x]) : x \in Resumes}

RegenerateInit ==
  /\ rbody \in RenderBodies
  /\ rpc = "start"
  /\ rendered = NoResponse
  /\ rcalls = <<>>
  /\ NormalizeIdle
  /\ KeywordsIdle
  /\ TailorIdle
  /\ AtsIdle
  /\ FormatIdle
  /\ PageIdle

\* the handler returns an answer
Reply(a) == rendered' = a /\ rpc' = "done"

\* await req.json(): it raises or returns the body
ReadBody ==
  /\ rpc = "start"
  /\ IF rbody = NotJson
     THEN Reply(RenderError("Unexpected token"))
     ELSE rpc' = "check" /\ UNCHANGED rendered
  /\ UNCHANGED <<rbody, rcalls, normalizeVars, keywordVars, tailorVars, atsVars, formatVars,
                 pageVars>>

\* the name and the cover letter are validated and the resume formatted
CheckBody ==
  /\ rpc = "check"
  /\ IF Refusal(rbody) # NoResponse
     THEN Reply(Refusal(rbody)) /\ UNCHANGED rcalls
     ELSE /\ rcalls' = Append(rcalls, "formatResumeATS")
          /\ rpc' = "render"
          /\ UNCHANGED rendered
  /\ UNCHANGED <<rbody, normalizeVars, keywordVars, tailorVars, atsVars, formatVars, pageVars>>

\* await renderPdfToBuffer(...) twice and renderDocxBase64FromText(...) twice: one
\* of them raises, or they return and the handler answers 200
RenderFiles ==
  /\ rpc = "render"
  /\ \/ \E failed \in {"renderPdfToBuffer", "renderDocxBase64FromText"} :
          /\ rcalls' = Append(rcalls, failed)
          /\ Reply(RenderError(failed))
     \/ /\ rcalls' = rcalls \o <<"renderPdfToBuffer", "renderPdfToBuffer",
                                 "renderDocxBase64FromText", "renderDocxBase64FromText">>
        /\ Reply([status |-> 200,
                  body |-> RenderResult(Get(rbody, "resume"), CoverOf(rbody))])
  /\ UNCHANGED <<rbody, normalizeVars, keywordVars, tailorVars, atsVars, formatVars, pageVars>>

RegenerateNext == ReadBody \/ CheckBody \/ RenderFiles

SpecRegenerate == RegenerateInit /\ [][RegenerateNext]_vars

RECURSIVE Json(_)
\* JSON.parse(JSON.stringify(v)): a property that is undefined is left out, an
\* element that is undefined becomes null
Json(v) ==
  CASE v.t = "obj" ->
         Obj([k \in {x \in DOMAIN v.o : v.o[x].t # "undef"} |-> Json(v.o[k])])
    [] v.t = "arr" ->
         Arr([i \in 1..Len(v.a) |-> IF v.a[i].t = "undef" THEN Null ELSE Json(v.a[i])])
    [] OTHER -> v

(***************************************************************************)
(* A Tailor request, and then the Regenerate request onRegenerate sends    *)
(* when nothing was edited: the resume and the cover letter of the Tailor  *)
(* answer (src/app/page.tsx).                                              *)
(***************************************************************************)
Resubmit ==
  /\ tpc = "done"
  /\ response.status = 200
  /\ rpc = "idle"
  /\ rbody' = Obj([resume |-> Json(response.body.resume),
                   cover_letter |-> Str(response.body.cover_letter)])
  /\ rpc' = "start"
  /\ UNCHANGED <<rendered, rcalls, normalizeVars, keywordVars, tailorVars, atsVars, formatVars,
                 pageVars>>

SessionNext == TailorNext \/ Resubmit \/ RegenerateNext

SpecSession == TailorInit /\ [][SessionNext]_vars

(***************************************************************************)
(* The page (src/app/page.tsx): the state of Home, localStorage, and the   *)
(* requests that await their response.  A handler that awaits runs its     *)
(* continuation with the state of the render it was called in.  The JSON   *)
(* text localStorage holds is written as the entries it stands for.        *)
(***************************************************************************)
HISTORY_MAX == 5

\* .slice(0, HISTORY_MAX) left out
NewestAll(entries) == entries

\* .slice(0, HISTORY_MAX)
Newest(entries) == Take(entries, HISTORY_MAX)

RECURSIVE Descending(_)
\* .sort((a, b) => b.createdAt - a.createdAt), which is stable
Descending(entries) ==
  IF entries = <<>> THEN <<>>
  ELSE LET rest == Descending(Tail(entries))
           k == Cardinality({i \in 1..Len(rest) : rest[i].createdAt > Head(entries).createdAt})
       IN SubSeq(rest, 1, k) \o <<Head(entries)>> \o SubSeq(rest, k + 1, Len(rest))

\* safeLoadHistory() when localStorage holds the entries disk: every entry the
\* page wrote has a string id and a number createdAt
safeLoadHistory(disk) == Newest(Descending(disk))

\* localStorage.setItem(HISTORY_KEY, ...) returns: with room for files every
\* value fits, with room for text those whose first entry has no files or
\* was there before, with no room none
Fits(entries, disk, room) ==
  \/ room = "files"
  \/ room = "text" /\ (entries = <<>> \/ ~entries[1].hasFiles \/ (\E j \in 1..Len(disk) : disk[j] = entries[1]))

\* makeLabelFromJob(text); the ellipsis U+2026 is written "..."
makeLabelFromJob(text) ==
  LET oneLine == Trim(Collapse(text, 1))
  IN IF oneLine = "" THEN "Tailor Run"
     ELSE SliceTo(oneLine, 60) \o (IF Len(oneLine) > 60 THEN "..." ELSE "")

\* entryFull of addToHistory at time at; Math.random() gives the same digits
\* every time
Entry(result, text, at) ==
  [id |-> NatStr(at) \o "_8a3f",
   createdAt |-> at,
   label |-> makeLabelFromJob(text),
   jobPreview |-> SliceTo(text, 240),
   result |-> result,
   hasFiles |-> TRUE]

\* stripped of addToHistory with the payloads kept
StrippedNot(result) == result

\* stripped of addToHistory
Stripped(result) ==
  [result EXCEPT !.resume_pdf_base64 = "", !.cover_letter_pdf_base64 = "",
                 !.resume_docx_base64 = "", !.cover_letter_docx_base64 = ""]

\* entryTextOnly of addToHistory
TextOnly(entry) == [entry EXCEPT !.result = Stripped(entry.result), !.hasFiles = FALSE]

\* a payload as the page holds it: the page passes payloads on and tests them
\* for emptiness, and never looks inside one
Base64(document) == document.kind

\* an answer body as res.json() gives it
Received(body) ==
  [body EXCEPT !.resume = Json(@),
               !.resume_pdf_base64 = Base64(@), !.cover_letter_pdf_base64 = Base64(@),
               !.resume_docx_base64 = Base64(@), !.cover_letter_docx_base64 = Base64(@)]

\* the body of a 200 answer of Tailor
Tailored ==
  LET raw ==
        Obj([header |-> Obj([name |-> Str("Ann")]),
             experience |->
               Arr(<<Obj([company |-> Str("Acme"), title |-> Str("Dev"),
                          bullets |-> Arr(<<Str("led x"), Str("built y")>>)])>>),
             projects |->
               Arr(<<Obj([name |-> Str("Site"), bullets |-> Arr(<<Str("built it")>>)])>>)])
      result == TailorResult(LongResume, normalizeResume(raw), "Dear team, I build Go services.")
  IN Received(result)

\* the job text typed in the page
Posting == "Senior engineer: Go, TypeScript and SQL. Five years of backend work."

\* what earlier visits left in localStorage: nothing, four entries, five
StoredHistories ==
  LET Old == [k \in 1..HISTORY_MAX |-> Entry(Tailored, Posting, HISTORY_MAX + 1 - k)]
      Kept == [Old EXCEPT ![2] = TextOnly(@)]
  IN {<<>>, SubSeq(Kept, 2, HISTORY_MAX), Old}

\* the bullets shown: (e.bullets ?? []).filter(Boolean)
Shown(entry) == SelectSeq(Elements(Get(entry, "bullets")), Truthy)

\* structuredClone(resume) with bullets[i] of entry idx of the section set
SetBullet(old, section, idx, i, text) ==
  LET entries == Elements(Get(old, section))
      bullets == Elements(Get(entries[idx], "bullets"))
      entry == [k \in DOMAIN entries[idx].o \cup {"bullets"} |->
                  IF k = "bullets"
                  THEN Arr([j \in 1..(IF i > Len(bullets) THEN i ELSE Len(bullets)) |->
                              IF j = i THEN Str(text)
                              ELSE IF j <= Len(bullets) THEN bullets[j] ELSE Undef])
                  ELSE entries[idx].o[k]]
  IN Obj([k \in DOMAIN old.o \cup {section} |->
            IF k = section THEN Arr([entries EXCEPT ![idx] = Obj(entry)]) ELSE old.o[k]])

serverVars == <<normalizeVars, keywordVars, tailorVars, atsVars, formatVars, renderVars>>

PageInit ==
  /\ mounted = FALSE
  /\ now = HISTORY_MAX
  /\ job = Posting
  /\ data = Null
  /\ editedResume = Null
  /\ error = Null
  /\ history = <<>>
  /\ historyInfo = Null
  /\ selectedHistoryId = Null
  /\ stored \in StoredHistories
  /\ tailoring = NoCall
  /\ regenerating = NoCall
  /\ quota \in {"files", "text", "none"}
  /\ clicks = NoClick
  /\ regens = 0
  /\ edit = NoEdit
  /\ NormalizeIdle
  /\ KeywordsIdle
  /\ TailorIdle
  /\ AtsIdle
  /\ FormatIdle
  /\ RegenerateIdle

\* useEffect(() => setHistory(safeLoadHistory()), []): it runs before any click
Mount ==
  /\ ~mounted
  /\ mounted' = TRUE
  /\ history' = safeLoadHistory(stored)
  /\ UNCHANGED <<now, job, data, editedResume, error, historyInfo, selectedHistoryId, stored,
                 tailoring, regenerating, quota, clicks, regens, edit, serverVars>>

\* onTailor up to its await: the button is enabled by canSubmit
OnTailor ==
  /\ mounted
  /\ ~tailoring.on
  /\ now < HISTORY_MAX + MaxRuns
  /\ Len(Trim(job)) >= MIN_CHARS
  /\ tailoring' = [on |-> TRUE, history |-> history, job |-> job]
  /\ error' = Null
  /\ data' = Null
  /\ editedResume' = Null
  /\ historyInfo' = Null
  /\ selectedHistoryId' = Null
  /\ UNCHANGED <<mounted, now, job, history, stored, regenerating, quota, clicks, regens, edit, serverVars>>

\* onTailor from its await on, the answer being 200: setData, setEditedResume
\* and addToHistory, which sees the history and the job text of the render
\* onTailor was called in
TailorSucceeds ==
  /\ tailoring.on
  /\ LET json == Tailored
         entryFull == Entry(json, tailoring.job, now + 1)
         next == Newest(<<entryFull>> \o tailoring.history)
         next2 == Newest(<<TextOnly(entryFull)>> \o tailoring.history)
     IN /\ now' = now + 1
        /\ data' = json
        /\ editedResume' = json.resume
        /\ IF Fits(next, stored, quota)
           THEN history' = next /\ stored' = Newest(next) /\ historyInfo' = Null
           ELSE IF Fits(next2, stored, quota)
           THEN /\ history' = next2
                /\ stored' = Newest(next2)
                /\ historyInfo' = Str("Saved to history without PDF/DOCX files (browser storage limit). Re-run Tailor to regenerate files.")
           ELSE /\ historyInfo' = Str("Could not save to history (browser storage limit).")
                /\ UNCHANGED <<history, stored>>
  /\ tailoring' = NoCall
  /\ UNCHANGED <<mounted, job, error, selectedHistoryId, regenerating, quota, clicks, regens, edit, serverVars>>

\* onTailor from its await on, fetch raising or the answer being an error
TailorFails ==
  /\ tailoring.on
  /\ \E message \in {ServerError("groq").body.error} :
       error' = Str(message)
  /\ tailoring' = NoCall
  /\ UNCHANGED <<mounted, now, job, data, editedResume, history, historyInfo, selectedHistoryId,
                 stored, regenerating, quota, clicks, regens, edit, serverVars>>

openHistoryEntry ==
  /\ mounted
  /\ clicks.n < MaxClicks
  /\ clicks' = [clicks EXCEPT !.n = @ + 1]
  /\ \E i \in 1..Len(history) :
       LET entry == history[i]
       IN /\ error' = Null
          /\ data' = entry.result
          /\ editedResume' = entry.result.resume
          /\ selectedHistoryId' = Str(entry.id)
          /\ job' = IF entry.jobPreview # "" THEN entry.jobPreview ELSE job
          /\ historyInfo' = IF entry.hasFiles THEN Null
                            ELSE Str("This history item was saved without files (storage limit).")
  /\ UNCHANGED <<mounted, now, history, stored, tailoring, regenerating, quota, regens, edit, serverVars>>

deleteHistoryEntry ==
  /\ mounted
  /\ clicks.n < MaxClicks
  /\ \E i \in 1..Len(history) :
       LET id == history[i].id
           Other(h) == h.id # id
           next == SelectSeq(history, Other)
       IN /\ clicks' = [n |-> clicks.n + 1,
                         removed |-> clicks.removed \cup {h \in {history[j] : j \in 1..Len(history)} : h.id = id}]
          /\ history' = next
          /\ stored' = IF Fits(next, stored, quota) THEN Newest(next) ELSE stored
          /\ selectedHistoryId' = IF selectedHistoryId = Str(id) THEN Null ELSE selectedHistoryId
  /\ UNCHANGED <<mounted, now, job, data, editedResume, error, historyInfo, tailoring,
                 regenerating, quota, regens, edit, serverVars>>

\* the button is disabled while the history is empty
clearHistory ==
  /\ mounted
  /\ clicks.n < MaxClicks
  /\ clicks' = [n |-> clicks.n + 1,
                 removed |-> clicks.removed \cup {history[j] : j \in 1..Len(history)}]
  /\ history # <<>>
  /\ history' = <<>>
  /\ selectedHistoryId' = Null
  /\ stored' = <<>>
  /\ UNCHANGED <<mounted, now, job, data, editedResume, error, historyInfo, tailoring,
                 regenerating, quota, regens, edit, serverVars>>

\* a bullet edited in place: what holds the same resume changes with it
EditBulletInPlace ==
  /\ data # Null
  /\ editedResume # Null
  /\ edit.n < MaxEdits
  /\ \E section \in {"experience", "projects"}, draft \in {"Shipped z", "  "} :
       \E idx \in 1..Len(Elements(Get(editedResume, section))) :
         \E i \in 1..Len(Shown(Elements(Get(editedResume, section))[idx])) :
           LET value == Shown(Elements(Get(editedResume, section))[idx])[i].s
               next == SetBullet(editedResume, section, idx, i,
                                 IF Trim(draft) # "" THEN draft ELSE value)
           IN /\ editedResume' = next
              /\ data' = IF data.resume = editedResume THEN [data EXCEPT !.resume = next] ELSE data
              /\ edit' = [n |-> edit.n + 1, section |-> section, idx |-> idx, i |-> i,
                          value |-> value, draft |-> draft]
  /\ UNCHANGED <<mounted, now, job, error, history, historyInfo, selectedHistoryId, stored,
                 tailoring, regenerating, quota, clicks, regens, serverVars>>

\* a bullet shown by ResumePreview is clicked, typed over and left: onChange
\* of EditableBullet with the draft, or with the value when the draft is blank
EditBullet ==
  /\ data # Null
  /\ editedResume # Null
  /\ edit.n < MaxEdits
  /\ \E section \in {"experience", "projects"}, draft \in {"Shipped z", "  "} :
       \E idx \in 1..Len(Elements(Get(editedResume, section))) :
         \E i \in 1..Len(Shown(Elements(Get(editedResume, section))[idx])) :
           LET value == Shown(Elements(Get(editedResume, section))[idx])[i].s
           IN /\ editedResume' = SetBullet(editedResume, section, idx, i,
                                           IF Trim(draft) # "" THEN draft ELSE value)
              /\ edit' = [n |-> edit.n + 1, section |-> section, idx |-> idx, i |-> i,
                          value |-> value, draft |-> draft]
  /\ UNCHANGED <<mounted, now, job, data, error, history, historyInfo, selectedHistoryId, stored,
                 tailoring, regenerating, quota, clicks, regens, serverVars>>

\* onRegenerate up to its await: the button is shown with data and enabled
\* with editedResume unless a Regenerate request awaits its response
OnRegenerate ==
  /\ data # Null
  /\ editedResume # Null
  /\ ~regenerating.on
  /\ regens < MaxRegens
  /\ regens' = regens + 1
  /\ regenerating' = [on |-> TRUE, data |-> data, editedResume |-> editedResume]
  /\ error' = Null
  /\ UNCHANGED <<mounted, now, job, data, editedResume, history, historyInfo, selectedHistoryId,
                 stored, tailoring, quota, clicks, edit, serverVars>>

\* the body onRegenerate sends, as the handler reads it
Sent(call) == Obj([resume |-> Json(call.editedResume), cover_letter |-> Str(call.data.cover_letter)])

\* onRegenerate from its await on, the answer being 200: the outputs replace
\* those of the data onRegenerate was called with
RegenerateSucceeds ==
  /\ regenerating.on
  /\ LET sent == Sent(regenerating)
         updated == Received(RenderResult(Get(sent, "resume"), CoverOf(sent)))
     IN /\ Refusal(sent) = NoResponse
        /\ data' = [regenerating.data EXCEPT
                      !.resume = updated.resume,
                      !.tailored_resume = updated.tailored_resume,
                      !.cover_letter = updated.cover_letter,
                      !.resume_pdf_base64 = updated.resume_pdf_base64,
                      !.cover_letter_pdf_base64 = updated.cover_letter_pdf_base64,
                      !.resume_docx_base64 = updated.resume_docx_base64,
                      !.cover_letter_docx_base64 = updated.cover_letter_docx_base64]
        /\ editedResume' = updated.resume
  /\ regenerating' = NoCall
  /\ UNCHANGED <<mounted, now, job, error, history, historyInfo, selectedHistoryId, stored,
                 tailoring, quota, clicks, regens, edit, serverVars>>

\* onRegenerate from its await on, fetch raising or the answer being an error
RegenerateFails ==
  /\ regenerating.on
  /\ \E message \in (IF Refusal(Sent(regenerating)) = NoResponse
                     THEN {RenderError("renderPdfToBuffer").body.error}
                     ELSE {Refusal(Sent(regenerating)).body.error}) :
       error' = Str(message)
  /\ regenerating' = NoCall
  /\ UNCHANGED <<mounted, now, job, data, editedResume, history, historyInfo, selectedHistoryId,
                 stored, tailoring, quota, clicks, regens, edit, serverVars>>

PageNext ==
  \/ Mount \/ OnTailor \/ TailorSucceeds \/ TailorFails
  \/ openHistoryEntry \/ deleteHistoryEntry \/ clearHistory
  \/ EditBullet \/ OnRegenerate \/ RegenerateSucceeds \/ RegenerateFails

SpecPage == PageInit /\ [][PageNext]_vars

(***************************************************************************)
(* Properties of normalizeResume.                                          *)
(***************************************************************************)
IsList(v) == v.t = "arr"

IsTrimmed(s) == s = "" \/ (At(s, 1) \notin WhiteSpace /\ At(s, Len(s)) \notin WhiteSpace)

\* the items of a raw list field, none when it is not an array
Items(v) == IF IsArray(v) THEN v.a ELSE <<>>

\* the j-th smallest element of a set of indices
Nth(S, j) == CHOOSE i \in S : Cardinality({x \in S : x < i}) = j - 1

RECURSIVE ScalarStrings(_)
\* the strings held by the scalar fields of a value (not the string elements of its lists)
ScalarStrings(v) ==
  CASE v.t = "str" -> {v.s}
    [] v.t = "arr" -> UNION {ScalarStrings(v.a[i]) : i \in {j \in 1..Len(v.a) : v.a[j].t # "str"}}
    [] v.t = "obj" -> UNION {ScalarStrings(v.o[k]) : k \in DOMAIN v.o}
    [] OTHER -> {}

RECURSIVE AllStrings(_)
\* every string a value holds
AllStrings(v) ==
  CASE v.t = "str" -> {v.s}
    [] v.t = "arr" -> UNION {AllStrings(v.a[i]) : i \in 1..Len(v.a)}
    [] v.t = "obj" -> UNION {AllStrings(v.o[k]) : k \in DOMAIN v.o}
    [] OTHER -> {}

\* the list fields of a Resume are all lists
ListsPresent(v) ==
  /\ IsList(v.o.header.o.links)
  /\ \A k \in {"languages", "frameworks", "tools", "other"} : IsList(v.o.skills.o[k])
  /\ IsList(v.o.experience) /\ \A i \in 1..Len(v.o.experience.a) : IsList(v.o.experience.a[i].o.bullets)
  /\ IsList(v.o.projects)
  /\ \A i \in 1..Len(v.o.projects.a) :
       IsList(v.o.projects.a[i].o.tech) /\ IsList(v.o.projects.a[i].o.bullets)
  /\ IsList(v.o.education) /\ \A i \in 1..Len(v.o.education.a) : IsList(v.o.education.a[i].o.details)

\* C1: normalizeResume is total: on every input it returns, never raises, and
\* in the value returned every list field is a list.
C1_Total ==
  /\ npc # "threw"
  /\ npc \in {"returned", "renormalized"} => ListsPresent(resume)

\* the input entries with every required field non-empty once coerced and trimmed
KeptIndices(v, required) ==
  {i \in 1..Len(Items(v)) : \A k \in required : Coerce(Get(Items(v)[i], k)) # ""}

\* C2: experience holds exactly the input entries whose company and title are
\* both non-empty after coercion and trimming, projects those whose name is,
\* education those whose school is, each in the original relative order; the
\* others are dropped without an error.
C2_DropRule ==
  npc = "returned" =>
    LET ke == KeptIndices(Get(r, "experience"), {"company", "title"})
        kp == KeptIndices(Get(r, "projects"), {"name"})
        kd == KeptIndices(Get(r, "education"), {"school"})
    IN /\ Len(resume.o.experience.a) = Cardinality(ke)
       /\ \A j \in 1..Cardinality(ke) :
            resume.o.experience.a[j] = ExperienceItem(Items(Get(r, "experience"))[Nth(ke, j)])
       /\ Len(resume.o.projects.a) = Cardinality(kp)
       /\ \A j \in 1..Cardinality(kp) :
            resume.o.projects.a[j] = ProjectItem(Items(Get(r, "projects"))[Nth(kp, j)])
       /\ Len(resume.o.education.a) = Cardinality(kd)
       /\ \A j \in 1..Cardinality(kd) :
            resume.o.education.a[j] = EducationItem(Items(Get(r, "education"))[Nth(kd, j)])

\* {title: "X"} is dropped and {company: "C", title: "T"} behind it is kept
C2_Witness ==
  /\ npc = "returned"
  /\ Get(r, "experience") = Arr(<<Obj([title |-> Str("X")]), Obj([company |-> Str("C"), title |-> Str("T")])>>)
  /\ Len(resume.o.experience.a) = 1
  /\ resume.o.experience.a[1].o.company = Str("C")

\* C3: normalizeResume is idempotent: normalizing the value it returned
\* returns (does not raise) and yields that same value.
C3_Idempotent ==
  /\ npc = "returned" => ~normalizeResumeThrows(resume)
  /\ npc = "renormalized" => again = resume

\* a resume with a coerced name, an unset optional field and a kept entry, normalized twice
C3_Witness ==
  /\ npc = "renormalized"
  /\ Get(r, "experience") # Undef
  /\ Len(resume.o.experience.a) = 2
  /\ resume.o.experience.a[1].o.location = Undef
  /\ resume.o.experience.a[2].o.start = Str("2020")

\* what a scalar field holds, given the value v supplied for it: its trimmed string
\* representation when v is neither a string nor null nor missing and that is not empty
ShowsCoerced(v, out) ==
  (v.t \notin {"str", "null", "undef"} /\ Coerce(v) # "") => out = Str(Coerce(v))

\* C4: every scalar field is coerced the same way: a non-string, non-null
\* value supplied for it appears in the output as its string representation
\* (42 becomes "42"); a list field missing or not an array becomes the empty list.
C4_UniformCoercion ==
  npc = "returned" =>
    /\ ShowsCoerced(Get(Get(r, "header"), "name"), resume.o.header.o.name)
    /\ ShowsCoerced(Get(Get(r, "header"), "location"), resume.o.header.o.location)
    /\ ShowsCoerced(Get(r, "summary"), resume.o.summary)
    /\ \A k \in {"experience", "projects", "education"} :
         ~IsArray(Get(r, k)) => resume.o[k] = Arr(<<>>)
    /\ \A k \in {"languages", "frameworks", "tools", "other"} :
         ~IsArray(Get(Get(r, "skills"), k)) => resume.o.skills.o[k] = Arr(<<>>)
    /\ ~IsArray(Get(Get(r, "header"), "links")) => resume.o.header.o.links = Arr(<<>>)

SetOrUnset(v) == v = Undef \/ (v.t = "str" /\ v.s # "")

\* C6: no optional scalar field holds the empty string, a value empty after
\* trimming being stored as unset; summary is always a string, empty when
\* missing or blank; header.name is never empty, "NAME" standing in.
C6_OptionalUnset ==
  npc = "returned" =>
    /\ \A k \in {"location", "email", "phone"} :
         /\ SetOrUnset(resume.o.header.o[k])
         /\ Coerce(Get(Get(r, "header"), k)) = "" => resume.o.header.o[k] = Undef
    /\ \A i \in 1..Len(resume.o.experience.a) :
         \A k \in {"location", "start", "end"} : SetOrUnset(resume.o.experience.a[i].o[k])
    /\ \A i \in 1..Len(resume.o.education.a) :
         \A k \in {"degree", "location", "year"} : SetOrUnset(resume.o.education.a[i].o[k])
    /\ resume.o.summary.t = "str"
    /\ (Get(r, "summary").t \in {"undef", "null"}
          \/ (Get(r, "summary").t = "str" /\ Trim(Get(r, "summary").s) = ""))
         => resume.o.summary = Str("")
    /\ resume.o.header.o.name.t = "str" /\ resume.o.header.o.name.s # ""
    /\ Coerce(Get(Get(r, "header"), "name")) = "" => resume.o.header.o.name = Str("NAME")

\* a blank location is stored as unset and a blank name as the placeholder
C6_Witness ==
  /\ npc = "returned"
  /\ Get(Get(r, "header"), "location") = Str("  ")
  /\ Get(Get(r, "header"), "name") = Str(" \n")
  /\ resume.o.header.o.location = Undef
  /\ resume.o.header.o.name = Str("NAME")

(***************************************************************************)
(* Properties of extractJobKeywords.                                       *)
(***************************************************************************)
\* the canonical forms of the tokens of the job text that pass the filters, in order
Counted(text) ==
  LET acc == Accepted(JobTokens(text)) IN [i \in 1..Len(acc) |-> Normalized(acc[i])]

Range(seq) == {seq[i] : i \in 1..Len(seq)}

\* the number of occurrences of k in a sequence
Occurrences(seq, k) == Cardinality({i \in 1..Len(seq) : seq[i] = k})

FirstSeen(seq, k) == SetMin({i \in 1..Len(seq) : seq[i] = k})

\* k ranks before d: it occurs more often, or as often and first
RanksBefore(seq, k, d) ==
  \/ Occurrences(seq, k) > Occurrences(seq, d)
  \/ Occurrences(seq, k) = Occurrences(seq, d) /\ FirstSeen(seq, k) < FirstSeen(seq, d)

\* C9: extractJobKeywords returns each normalized token at most once, ordered
\* by descending number of occurrences with ties in order of first occurrence,
\* truncated to the first max keywords.
C9_Ranking ==
  kpc = "done" =>
    LET counted == Counted(jobText)
    IN /\ \A i, j \in 1..Len(keywords) : i < j => RanksBefore(counted, keywords[i], keywords[j])
       /\ \A i, j \in 1..Len(keywords) : keywords[i] = keywords[j] => i = j
       /\ Range(keywords) \subseteq Range(counted)
       /\ Len(keywords) = IF Cardinality(Range(counted)) < max
                          THEN Cardinality(Range(counted)) ELSE max
       /\ \A k \in Range(keywords) : \A d \in Range(counted) \ Range(keywords) :
            RanksBefore(counted, k, d)

\* ts, seen after go but counted twice (once as TypeScript), is the one keyword kept
C9_Witness ==
  /\ kpc = "done"
  /\ jobText = "go ts TypeScript"
  /\ max = 1
  /\ keywords = <<"ts">>

\* C10: every keyword returned contains no digit, is no stopword and has at
\* least 3 characters unless it is one of c, r, go, js, ts; a token with a
\* digit is rejected whole: every keyword comes from a token without a digit.
C10_Filters ==
  kpc = "done" =>
    /\ \A k \in Range(keywords) :
         /\ ~HasDigit(k)
         /\ k \notin STOPWORDS
         /\ Len(k) >= 3 \/ k \in {"c", "r", "go", "js", "ts"}
    /\ Range(keywords) \subseteq
         {Normalized(StripEdges(t)) : t \in {u \in Range(JobTokens(jobText)) : ~HasDigit(u)}}

\* python3 and aws2024 leave no keyword, not even python or aws
C10_Witness ==
  /\ kpc = "done"
  /\ jobText = "Python3 go aws2024"
  /\ max = DefaultMax
  /\ keywords = <<"go">>

TechTokens == {"c++", "c#", "node.js", "ci/cd"}

\* C11: a job text holding the tokens c++, c#, node.js and ci/cd yields each of
\* the four as a keyword, unmodified.
C11_TechTokens ==
  (kpc = "done" /\ max = DefaultMax /\ TechTokens \subseteq Range(JobTokens(jobText)))
    => TechTokens \subseteq Range(keywords)

(***************************************************************************)
(* Properties of analyzeAts.                                               *)
(***************************************************************************)
\* C12: present and missing split the keyword list in order, a keyword being
\* present exactly when the lower-cased resume text contains it; score is
\* round(100 * |present| / max(1, |keywords|)), within 0..100, 67 for 2 of 3
\* and 0 for no keyword.
C12_Score ==
  apc = "done" =>
    LET kw == extractJobKeywords(atsJob, DefaultMax)
        low == toLowerCase(atsResume)
        In(k) == \E i \in 1..Len(low) :
                   i + Len(k) - 1 <= Len(low) /\ SubSeq(low, i, i + Len(k) - 1) = k
        Out(k) == ~In(k)
        p == Len(ats.present)
        t == IF Len(kw) > 1 THEN Len(kw) ELSE 1
    IN /\ ats.keywords = kw
       /\ ats.present = SelectSeq(kw, In)
       /\ ats.missing = SelectSeq(kw, Out)
       /\ Range(ats.present) \cap Range(ats.missing) = {}
       /\ Range(ats.present) \cup Range(ats.missing) = Range(kw)
       /\ Len(ats.present) + Len(ats.missing) = Len(kw)
       /\ ats.score \in 0..100
       /\ 2 * (100 * p - ats.score * t) >= 0 - t
       /\ 2 * (100 * p - ats.score * t) < t
       /\ (Len(kw) = 3 /\ p = 2) => ats.score = 67
       /\ kw = <<>> => ats.score = 0

\* react and sql are in the resume text, node.js is not: 2 of 3
C12_Witness ==
  /\ apc = "done"
  /\ atsJob = "react node.js sql"
  /\ atsResume = "React and SQL developer."
  /\ ats.present = <<"react", "sql">>
  /\ ats.missing = <<"node.js">>
  /\ ats.score = 67

\* the tokens counted under the keyword k
FormsOf(k) ==
  IF k = "ts" THEN {"ts", "typescript"}
  ELSE IF k = "js" THEN {"js", "javascript"}
  ELSE IF k = "node.js" THEN {"node.js", "node"}
  ELSE {k}

\* C13: typescript and ts are counted together under ts, javascript and js
\* under js, node and node.js under node.js; typescript, javascript and node
\* are never keywords; a job text with TypeScript and a resume text with ts
\* give ts in present.
C13_Synonyms ==
  apc = "done" =>
    LET acc == Accepted(JobTokens(atsJob))
        Count(k) == Cardinality({i \in 1..Len(acc) : acc[i] \in FormsOf(k)})
        kw == ats.keywords
    IN /\ Range(kw) \cap {"typescript", "javascript", "node"} = {}
       /\ \A c \in {"ts", "js", "node.js"} : c \in Range(kw) <=> Count(c) > 0
       /\ \A i, j \in 1..Len(kw) : i < j => Count(kw[i]) >= Count(kw[j])
       /\ ("typescript" \in Range(acc) /\ Includes(toLowerCase(atsResume), "ts"))
            => "ts" \in Range(ats.present)

\* TypeScript, ts and typescript count 3 under ts, which go, seen twice and
\* first, does not outrank; the resume text has ts
C13_Witness ==
  /\ apc = "done"
  /\ atsJob = "go go TypeScript ts typescript"
  /\ atsResume = "I write TS and Go; Node.js too."
  /\ ats.keywords = <<"ts", "go">>
  /\ ats.present = <<"ts", "go">>

(***************************************************************************)
(* Properties of formatResumeATS.                                          *)
(***************************************************************************)
RECURSIVE SplitLines(_, _)
\* the lines of a text from position i on, a final "\n" ending the last line
SplitLines(s, i) ==
  LET j == IndexIn(s, {"\n"}, i)
  IN IF j = 0 THEN (IF i > Len(s) THEN <<>> ELSE <<SubSeq(s, i, Len(s))>>)
     ELSE <<SubSeq(s, i, j - 1)>> \o SplitLines(s, j + 1)

SectionHeaders ==
  <<"-- SUMMARY --", "-- SKILLS --", "-- EXPERIENCE --", "-- PROJECTS --", "-- EDUCATION --">>

RECURSIVE StringsOf(_)
\* the strings held by a value
StringsOf(v) ==
  IF v.t = "str" THEN {v.s}
  ELSE IF v.t = "arr" THEN UNION {StringsOf(v.a[i]) : i \in 1..Len(v.a)}
  ELSE IF v.t = "obj" THEN UNION {StringsOf(v.o[k]) : k \in DOMAIN v.o}
  ELSE {}

\* no field value holds the text of a section header
Plain(v) == \A x \in StringsOf(v) : \A k \in 1..5 : ~Includes(x, SectionHeaders[k])

\* some part of the contact line is not blank
HasContact(h) ==
  \/ \E k \in {"location", "email", "phone"} : clean(Get(h, k)) # ""
  \/ \E i \in 1..Len(Elements(Get(h, "links"))) :
       LET l == Elements(Get(h, "links"))[i]
       IN clean(IF Text(Get(l, "url")) # "" THEN Get(l, "url") ELSE Get(l, "label")) # ""

\* the text is the name line, the contact line if and only if there is one, and
\* the five sections in order, each header line occurring once
Sectioned(v, text) ==
  LET lines == SplitLines(text, 1)
      h == Get(v, "header")
      At1(k) == CHOOSE i \in 1..Len(lines) : lines[i] = SectionHeaders[k]
  IN /\ lines[1] = (IF clean(Get(h, "name")) # "" THEN clean(Get(h, "name")) ELSE "NAME")
     /\ IF HasContact(h)
        THEN lines[2] # "" /\ lines[3] = "" /\ lines[4] = SectionHeaders[1]
        ELSE lines[2] = "" /\ lines[3] = SectionHeaders[1]
     /\ \A k \in 1..5 : Cardinality({i \in 1..Len(lines) : lines[i] = SectionHeaders[k]}) = 1
     /\ \A k \in 1..4 : At1(k) < At1(k + 1)

EmptySection(v, k) ==
  CASE k = 1 -> clean(Get(v, "summary")) = ""
    [] k = 2 -> \A c \in {"languages", "frameworks", "tools", "other"} :
                  Elements(Get(Get(v, "skills"), c)) = <<>>
    [] k = 3 -> Elements(Get(v, "experience")) = <<>>
    [] k = 4 -> Elements(Get(v, "projects")) = <<>>
    [] k = 5 -> Elements(Get(v, "education")) = <<>>

\* the body of section k is the one line of the placeholder
PlaceholderBody(text, k) ==
  IF k < 5
  THEN Includes(text, SectionHeaders[k] \o "\n" \o EmDash \o "\n\n" \o SectionHeaders[k + 1] \o "\n")
  ELSE LET tail == SectionHeaders[5] \o "\n" \o EmDash \o "\n"
       IN Len(text) >= Len(tail) /\ SubSeq(text, Len(text) - Len(tail) + 1, Len(text)) = tail

EmptyResume == Obj([header |-> Obj([name |-> Str("")])])

EmptyText ==
  "NAME\n\n-- SUMMARY --\n" \o EmDash \o "\n\n-- SKILLS --\n" \o EmDash
  \o "\n\n-- EXPERIENCE --\n" \o EmDash \o "\n\n-- PROJECTS --\n" \o EmDash
  \o "\n\n-- EDUCATION --\n" \o EmDash \o "\n"

\* C15: every section with no content has the single line of the placeholder
\* as its body; the empty resume gives NAME and the five sections with the
\* placeholder; formatting the same resume twice gives the same text.
C15_Placeholders ==
  /\ fpc \in {"once", "twice"} =>
       /\ \A k \in 1..5 : EmptySection(fa, k) => PlaceholderBody(ta, k)
       /\ fa = EmptyResume => ta = EmptyText
  /\ fpc = "twice" => tb = ta

\* the empty resume, formatted twice
C15_Witness ==
  /\ fpc = "twice"
  /\ fa = EmptyResume
  /\ \A k \in 1..5 : EmptySection(fa, k)
  /\ ta = EmptyText
  /\ tb = EmptyText

\* a field is missing: absent or the empty string
Missing(v) == Text(v) = ""

\* Company - Title | Location | Start-End without the missing segments
ExpectedHeader(e) ==
  LET from == clean(Get(e, "start"))
      to == clean(Get(e, "end"))
  IN clean(Get(e, "company")) \o " " \o EmDash \o " " \o clean(Get(e, "title"))
     \o (IF Missing(Get(e, "location")) THEN "" ELSE " | " \o clean(Get(e, "location")))
     \o (IF Missing(Get(e, "start")) /\ Missing(Get(e, "end")) THEN ""
         ELSE " | " \o from \o (IF from # "" /\ to # "" THEN EnDash ELSE "") \o to)

\* the bullets that are not blank, whitespace collapsed, in order
Bullets(e) ==
  LET all == Elements(Get(e, "bullets"))
      cleaned == [i \in 1..Len(all) |-> clean(all[i])]
  IN SelectSeq(cleaned, NonEmpty)

RECURSIVE ExpectedBullets(_)
\* one line "- " and the bullet per bullet
ExpectedBullets(bullets) ==
  IF bullets = <<>> THEN ""
  ELSE "- " \o Head(bullets) \o "\n" \o ExpectedBullets(Tail(bullets))

\* the lines of an entry after its header line
ExpectedBody(e) ==
  IF Bullets(e) = <<>> THEN "- " \o EmDash \o "\n" ELSE ExpectedBullets(Bullets(e))

RECURSIVE ExpectedExperience(_)
ExpectedExperience(exp) ==
  IF exp = <<>> THEN ""
  ELSE ExpectedHeader(Head(exp)) \o "\n" \o ExpectedBody(Head(exp)) \o "\n"
       \o ExpectedExperience(Tail(exp))

\* C16: each experience entry is the line Company - Title | Location |
\* Start-End, a missing location, start or end omitted with its separator,
\* then one line "- " and the bullet per non-blank bullet, whitespace
\* collapsed, in order; an experience or project entry without a non-blank
\* bullet has the single line "- " and the placeholder instead.
C16_Entries ==
  fpc \in {"once", "twice"} =>
    LET exp == Elements(Get(fa, "experience"))
        proj == Elements(Get(fa, "projects"))
    IN /\ exp # <<>> =>
            Includes(ta, SectionHeaders[3] \o "\n" \o ExpectedExperience(exp)
                         \o SectionHeaders[4] \o "\n")
       /\ \A i \in 1..Len(proj) :
            Bullets(proj[i]) = <<>> =>
              Includes(ta, "\n" \o ProjectHeader(proj[i]) \o "\n- " \o EmDash \o "\n\n")

\* an entry with every segment and a blank bullet among three, then an entry
\* with a start only and no bullet
C16_Witness ==
  /\ fpc = "once"
  /\ Len(Elements(Get(fa, "experience"))) = 2
  /\ Includes(ta, "-- EXPERIENCE --\nAcme " \o EmDash \o " Dev | NYC | 2020" \o EnDash
                  \o "2022\n- led x\n- built y\n\nAcme " \o EmDash \o " Dev | 2020\n- "
                  \o EmDash \o "\n\n-- PROJECTS --\n")

RECURSIVE CleanView(_)
\* a value with the whitespace of every string collapsed and trimmed
CleanView(v) ==
  IF v.t = "str" THEN Str(clean(v))
  ELSE IF v.t = "arr" THEN Arr([i \in 1..Len(v.a) |-> CleanView(v.a[i])])
  ELSE IF v.t = "obj" THEN Obj([k \in DOMAIN v.o |-> CleanView(v.o[k])])
  ELSE v

\* the text of each normalized resume
TextOf == [x \in NormalizedResumes |-> formatResumeATS(x)]

CleanViewOf == [x \in NormalizedResumes |-> CleanView(x)]

\* C17: two normalized resumes that differ in a field value, whitespace
\* collapsed and trimmed, have different texts.
C17_Lossless ==
  (fpc \in {"once", "twice"} /\ fa \in NormalizedResumes) =>
    \A other \in NormalizedResumes :
      CleanViewOf[other] # CleanViewOf[fa] => TextOf[other] # ta

\* text ends with tail
EndsWith(text, tail) ==
  Len(text) >= Len(tail) /\ SubSeq(text, Len(text) - Len(tail) + 1, Len(text)) = tail

\* C18: the text starts with a character that is no whitespace and ends with
\* exactly one newline, which follows a character that is no whitespace.
C18_Edges ==
  fpc \in {"once", "twice"} =>
    /\ Len(ta) >= 2
    /\ At(ta, 1) \notin WhiteSpace
    /\ At(ta, Len(ta)) = "\n"
    /\ At(ta, Len(ta) - 1) \notin WhiteSpace

\* a resume whose last line is a detail of its last education entry
C18_Witness ==
  /\ fpc = "once"
  /\ Len(Elements(Get(fa, "education"))) = 1
  /\ At(ta, 1) = "A"
  /\ EndsWith(ta, "MIT " \o EmDash \o " BSc | MA | 2019\n- cum laude\n")

(***************************************************************************)
(* Properties of the coercion step of the Tailor operation.                *)
(***************************************************************************)
\* the handler is past the coercion of a model output
AfterCoercion ==
  \/ tpc = "render"
  \/ /\ tpc = "done"
     /\ "groq.chat.completions.create" \in Range(calls)
     /\ response # ServerError("groq")

\* the model output holds one valid object of shape {resume, cover_letter}
HoldsObject == reply.body.object.t = "obj" /\ ~LacksFields(reply.body.object)

\* normalizeResume, formatResumeATS and the renderers have not been called
NoProcessing ==
  Range(calls) \cap {"normalizeResume", "formatResumeATS", "renderPdfToBuffer",
                     "buildResumeDocx", "buildCoverLetterDocx"} = {}

\* the answer is the 502 error with at most RAW_CHARS characters of the model output
AnswersUnparseable ==
  /\ tpc = "done"
  /\ response.status = 502
  /\ response.body.error = "AI response could not be parsed."
  /\ response.body.raw = SliceTo(content, RAW_CHARS)
  /\ Len(response.body.raw) <= RAW_CHARS
  /\ NoProcessing

\* the numbers of "{" and of "}" in text differ
Unbalanced(text) ==
  Cardinality({i \in 1..Len(text) : At(text, i) = "{"})
    # Cardinality({i \in 1..Len(text) : At(text, i) = "}"})

\* C7: when the model output is commentary, one valid JSON object of shape
\* {resume, cover_letter}, fenced or not, and prose, the coercion step yields
\* exactly that object, whatever the commentary and the string values contain.
C7_Recovers ==
  (AfterCoercion /\ HoldsObject) => Coerced(content) = reply.body.object

\* C8 as stated: every model output whose braces are unbalanced is answered by
\* the 502 error with the truncated raw output, and nothing is normalized,
\* formatted or rendered.
C8_Unbalanced ==
  (AfterCoercion /\ Unbalanced(content)) => AnswersUnparseable

\* C8 amended: every model output that JSON.parse rejects and in which, once the
\* fences are removed, no "}" brings the brace depth counted from the first "{"
\* back to zero (or there is no "{") is answered by the 502 error with the first
\* RAW_CHARS characters of the output, and nothing is normalized, formatted or
\* rendered.
C8_NeverCloses ==
  (AfterCoercion /\ ~JsonParses(content) /\ extractFirstJsonObject(content) = Null)
    => AnswersUnparseable

\* an output of more than RAW_CHARS characters whose first "{" is never closed
C8_Witness ==
  /\ AfterCoercion
  /\ Len(content) > RAW_CHARS
  /\ ~JsonParses(content)
  /\ extractFirstJsonObject(content) = Null
  /\ response.status = 502
  /\ Len(response.body.raw) = RAW_CHARS

(***************************************************************************)
(* Properties of the Tailor operation.                                     *)
(***************************************************************************)
\* the job text has fewer than MIN_CHARS characters once NUL is removed and
\* the text trimmed
JobShort == Len(Trim(RemoveNul(form.jobText, 1))) < MIN_CHARS

\* the answer is a 400 error that carries nothing but its message
Only400(answer) == answer.status = 400 /\ DOMAIN answer.body = {"error"}

\* neither the model nor a renderer has been called
NoModelNoRender ==
  Range(calls) \cap {"groq.chat.completions.create", "renderPdfToBuffer", "buildResumeDocx",
                     "buildCoverLetterDocx"} = {}

\* C19: a request whose job text is too short ends with a 400 error before
\* any extraction or model call; one whose resume content, extracted or
\* fallback, is too short ends with a 400 error before any model call; in
\* both cases nothing is rendered and the answer carries only the error.
C19_ValidationFirst ==
  /\ [](JobShort => /\ calls = <<>>
                     /\ tpc \in {"start", "done"}
                     /\ tpc = "done" => Only400(response))
  /\ [][(tpc = "check" /\ Len(Trim(originalResume)) < MIN_CHARS)
          => /\ tpc' = "done"
             /\ Only400(response')
             /\ calls' = calls
             /\ NoModelNoRender]_vars
  /\ [][tpc # "done"]_vars

\* the text extracted from the uploaded file is too short: 400 after the
\* extraction, and nothing else was called
C19_Witness ==
  /\ tpc = "done"
  /\ ~JobShort
  /\ form.resumePdf = "file"
  /\ originalResume = "Ann Lee"
  /\ calls = <<"extractTextFromPdf">>
  /\ response.status = 400
  /\ DOMAIN response.body = {"error"}

\* the failure mode an answer stands for: the details of a 500 answer name
\* the call that raised
ModeOf(answer) ==
  CASE answer.status = 400 -> "input too short"
    [] answer.status = 502 -> "unparseable"
    [] answer.status = 500 /\ answer.body.details = "extractTextFromPdf" -> "extraction"
    [] OTHER -> "internal"

\* the status code and the error category of an answer
Category(answer) == <<answer.status, answer.body.error>>

\* the failure answers of the handler
FailureAnswers ==
  {TooShortJob, TooShortResume, Unparseable(""), ServerError("extractTextFromPdf"),
   ServerError("groq"), ServerError("TypeError"), ServerError("renderPdfToBuffer")}

\* C20: the answer of a failure mode differs in status code or error category
\* from every answer of each other failure mode.
C20_Distinguishable ==
  (tpc = "done" /\ response.status # 200) =>
    \A a \in FailureAnswers :
      ModeOf(a) # ModeOf(response) => Category(a) # Category(response)

\* what the uploaded file can give as resume content
Extracted == {"", "Ann Lee", "Ann Lee, engineer. Ann Lee. Engineer at Acme since 2020: built Go services and SQL pipelines."}

C29_TokenPresent ==
  apc = "done" =>
    LET acc == Accepted(JobTokens(atsJob))
    IN \A i \in 1..Len(acc) :
         Includes(toLowerCase(atsResume), acc[i]) =>
           \E k \in FormsOf(acc[i]) \cup {c \in {"ts", "js", "node.js"} : acc[i] \in FormsOf(c)} :
             /\ k \in Range(ats.keywords)
             /\ k \in Range(ats.present)
             /\ k \notin Range(ats.missing)

(***************************************************************************)
(* Properties of the Regenerate operation.                                 *)
(***************************************************************************)
\* resume.header.name of the body is missing or empty
Nameless(body) == Get(Get(Get(body, "resume"), "header"), "name") \in {Undef, Null, Str("")}

\* the cover letter of the body, trimmed
TrimmedCover(body) ==
  LET c == Get(body, "cover_letter")
  IN IF c \in {Undef, Null} THEN "" ELSE Trim(String(c))

\* the answer the body calls for when nothing raises
Regenerated(body) ==
  IF Nameless(body) THEN MissingResume
  ELSE IF Len(TrimmedCover(body)) < 10 THEN MissingCover
  ELSE [status |-> 200,
        body |-> RenderResult(Get(body, "resume"), TrimmedCover(body))]

\* neither the model nor the text extractor is called
NoModelNoExtractor ==
  /\ calls = <<>>
  /\ Range(rcalls) \cap {"groq.chat.completions.create", "extractTextFromPdf"} = {}

Regenerated200 == tpc = "done" /\ response.status = 200 /\ rpc = "done" /\ rendered.status = 200

\* C22: the ATS text Tailor returns and the one Regenerate returns for the
\* same resume are identical, and both are the output of formatResumeATS on
\* that resume.
C22_SameText ==
  Regenerated200 =>
    /\ rendered.body.resume = response.body.resume
    /\ rendered.body.tailored_resume = response.body.tailored_resume
    /\ response.body.tailored_resume = formatResumeATS(response.body.resume)

\* C26: the resume and the cover letter of a 200 answer of Tailor pass both
\* validations of Regenerate: the name is not empty and the cover letter has
\* at least 10 characters once trimmed.
C26_ValidInput ==
  (tpc = "done" /\ response.status = 200 /\ rpc = "done") =>
    /\ rendered.status # 400
    /\ Text(Get(Get(response.body.resume, "header"), "name")) # ""
    /\ Len(Trim(response.body.cover_letter)) >= 10

(***************************************************************************)
(* Properties of the page: the history, bullet edits and the requests that *)
(* await their response.                                                   *)
(***************************************************************************)
NewestFirst(entries) ==
  \A j \in 1..(Len(entries) - 1) : entries[j].createdAt >= entries[j + 1].createdAt

\* the step in which onTailor applies a 200 answer
Added == tailoring.on /\ ~tailoring'.on /\ now' = now + 1

Payloads ==
  {"resume_pdf_base64", "cover_letter_pdf_base64", "resume_docx_base64", "cover_letter_docx_base64"}

\* C23: after any sequence of load, add, delete and clear the history in
\* memory and the stored one hold at most 5 entries, newest first; an add
\* with 5 entries held puts the new entry first, keeps the 4 newest after it
\* and drops the oldest, in memory and in storage.
C23_AtMostFive ==
  /\ [](/\ Len(history) <= 5 /\ NewestFirst(history)
        /\ Len(stored) <= 5 /\ NewestFirst(stored))
  /\ [][(Added /\ Len(history) = 5 /\ history' # history) =>
          /\ Len(history') = 5
          /\ history'[1].createdAt = now'
          /\ SubSeq(history', 2, 5) = SubSeq(history, 1, 4)
          /\ history[5] \notin Range(history')
          /\ stored' = history']_vars

\* five entries were loaded and a Tailor result was added: the entry of time
\* 1 is gone, the one of time 2 is last
C23_Witness ==
  /\ Len(history) = 5
  /\ history[1].createdAt = 6
  /\ history[1].result = data
  /\ history[5].createdAt = 2
  /\ stored = history

\* C24: applying a Tailor answer keeps the result displayed with its four
\* payloads and sets no error, whatever storage does: when the full entry is
\* saved there is no notice; when only the entry without payloads can be
\* saved, that entry (same id, time, label, preview and texts, the four
\* payloads empty, hasFiles false) is first in memory and in storage and a
\* notice is set; when neither can be saved a notice is set and the history
\* in memory and the stored one are unchanged.
C24_SavedOrNoticed ==
  [][Added =>
       /\ data' = Tailored
       /\ \A k \in Payloads : data'[k] # ""
       /\ editedResume' = Tailored.resume
       /\ error' = error
       /\ CASE quota = "files" ->
                 /\ history'[1] = Entry(Tailored, tailoring.job, now')
                 /\ stored' = history'
                 /\ historyInfo' = Null
            [] quota = "text" ->
                 /\ history'[1].hasFiles = FALSE
                 /\ DOMAIN history'[1].result = DOMAIN Tailored
                 /\ \A k \in Payloads : history'[1].result[k] = ""
                 /\ \A k \in DOMAIN Tailored \ Payloads : history'[1].result[k] = Tailored[k]
                 /\ \A k \in {"id", "createdAt", "label", "jobPreview"} :
                      history'[1][k] = Entry(Tailored, tailoring.job, now')[k]
                 /\ stored' = history'
                 /\ historyInfo' \notin {Null, Str("")}
            [] quota = "none" ->
                 /\ history' = history
                 /\ stored' = stored
                 /\ historyInfo' \notin {Null, Str("")}]_vars

\* storage had room for text only: the result is displayed with its files,
\* the entry saved has none, and the notice says so
C24_Witness ==
  /\ quota = "text"
  /\ data = Tailored
  /\ data.resume_pdf_base64 # ""
  /\ error = Null
  /\ history # <<>>
  /\ history[1].createdAt = now
  /\ ~history[1].hasFiles
  /\ history[1].result.resume_pdf_base64 = ""
  /\ stored = history
  /\ historyInfo = Str("Saved to history without PDF/DOCX files (browser storage limit). Re-run Tailor to regenerate files.")

\* bullet i of entry idx of a section of a resume
BulletAt(old, section, idx, i) ==
  Elements(Get(Elements(Get(old, section))[idx], "bullets"))[i]

\* two resumes equal everywhere but in bullet i of entry idx of a section
SameBut(old, new, section, idx, i) ==
  LET before == Elements(Get(old, section))
      after == Elements(Get(new, section))
      bulletsBefore == Elements(Get(before[idx], "bullets"))
      bulletsAfter == Elements(Get(after[idx], "bullets"))
  IN /\ DOMAIN new.o = DOMAIN old.o
     /\ \A k \in DOMAIN old.o \ {section} : new.o[k] = old.o[k]
     /\ Len(after) = Len(before)
     /\ \A j \in 1..Len(before) : j # idx => after[j] = before[j]
     /\ DOMAIN after[idx].o = DOMAIN before[idx].o
     /\ \A k \in DOMAIN before[idx].o \ {"bullets"} : after[idx].o[k] = before[idx].o[k]
     /\ Len(bulletsAfter) = Len(bulletsBefore)
     /\ \A j \in 1..Len(bulletsBefore) : j # i => bulletsAfter[j] = bulletsBefore[j]

\* C25: a bullet edit leaves data, the history, the stored history and the
\* resume a waiting Regenerate request holds as they were; the new resume has
\* the typed text (the old text when the draft is blank) in the bullet that
\* was clicked, at the same entry index and bullet index, and is equal to the
\* old resume everywhere else.
C25_CopyOnWrite ==
  [][edit'.n # edit.n =>
       /\ data' = data
       /\ history' = history
       /\ stored' = stored
       /\ regenerating' = regenerating
       /\ BulletAt(editedResume, edit'.section, edit'.idx, edit'.i) = Str(edit'.value)
       /\ BulletAt(editedResume', edit'.section, edit'.idx, edit'.i) =
            Str(IF Trim(edit'.draft) # "" THEN edit'.draft ELSE edit'.value)
       /\ SameBut(editedResume, editedResume', edit'.section, edit'.idx, edit'.i)]_vars

\* the second bullet of the first experience entry was typed over: data and
\* the newest history entry still hold the old text
C25_Witness ==
  /\ edit.n = 1
  /\ edit.section = "experience"
  /\ edit.i = 2
  /\ edit.draft = "Shipped z"
  /\ data # Null
  /\ editedResume # Null
  /\ BulletAt(editedResume, "experience", 1, 2) = Str("Shipped z")
  /\ BulletAt(data.resume, "experience", 1, 2) = Str(edit.value)
  /\ history # <<>>
  /\ history[1].result = data

\* C27: an entry the user deleted or cleared is neither in the history in
\* memory nor, where storage takes the write, in the stored history, at any
\* later time.
C27_NeverReappears ==
  \A h \in clicks.removed :
    /\ h \notin Range(history)
    /\ quota # "none" => h \notin Range(stored)

\* C28: when a Regenerate response is applied, an editedResume and a data
\* that are no longer those of the request are left as they are.
C28_NewerKept ==
  [][(regenerating.on /\ ~regenerating'.on) =>
       /\ editedResume # regenerating.editedResume => editedResume' = editedResume
       /\ data # regenerating.data => data' = data]_vars

====
